---------------------------- MODULE Spec2Model ----------------------------
(***************************************************************************)
(* Model of the MetaStats engine (lib/stats/MetaStats.cpp): the telemetry  *)
(* counters, the distribution helpers, the mutators called by the pipeline *)
(* stages, hasStatsDataAvailable and the rollup generateStatsEvent.        *)
(*                                                                         *)
(* Strings that the code takes apart or builds (tenant tokens, record      *)
(* keys, stringified numbers) are sequences of one-character strings.      *)
(* Maps (std::map) are functions whose DOMAIN is the key set.              *)
(***************************************************************************)
EXTENDS Integers, Sequences, FiniteSets, TLC

VARIABLES
    m_sessionId,            \* MetaStats::m_sessionId
    m_telemetryStats,       \* MetaStats::m_telemetryStats, the global row
    m_telemetryTenantStats, \* MetaStats::m_telemetryTenantStats, token -> row
    now,                    \* PAL::getUtcSystemTimeMs(), one tick per call
    lastOp,                 \* the call that produced this state, with its arguments
    records,                \* what the last generateStatsEvent returned
    available,              \* what the last hasStatsDataAvailable returned
    onlyMetaStats,          \* history: every mutator call so far was metastats traffic
    mutations,              \* history: the number of mutator calls so far
    pc,                     \* concurrent callers: position inside updateOnPostData
    tmp,                    \* concurrent callers: the value loaded from the counter
    started,                \* concurrent callers: how many calls were issued
    dist,                   \* the map the distribution helpers are called on
    m_dataViewerCollection, \* DataViewerCollection::m_dataViewerCollection
    rollup,                 \* concurrent rollup: position inside generateStatsEvent
    issued,                 \* history: token -> records handed to updateOnEventIncoming
    reported                \* history: token -> received records reported by rollups

vars == << m_sessionId, m_telemetryStats, m_telemetryTenantStats, now, lastOp,
           records, available, onlyMetaStats, mutations, pc, tmp, started,
           dist, m_dataViewerCollection, rollup, issued, reported >>

engine == << m_sessionId, m_telemetryStats, m_telemetryTenantStats >>
threads == << pc, tmp, started >>
others == << m_dataViewerCollection, rollup, issued, reported >>

-----------------------------------------------------------------------------
(* Bounds of the model *)

\* number of calls (mutators, readers, rollups) in one behaviour
MaxOps == 3
\* of which mutator calls: a behaviour of MaxOps calls holds at least one
\* reader call or rollup
MaxMutations == MaxOps - 1
\* number of threads calling updateOnPostData concurrently
NThreads == 3
\* records handed to updateOnEventIncoming while rollups run, and the rollups
MaxIssued == 2
MaxRollups == 2
\* largest totalSpot handed to initDistributionKeys
MaxSpots == 3
\* number of values observed into a distribution between two clears
MaxObserve == 2

-----------------------------------------------------------------------------
(* Program constants *)

\* the width of unsigned int. The code's is 32 bits; TLC's integers end at
\* 2^31 - 1, so the model's unsigned type is 30 bits wide. No counter of a
\* behaviour within the bounds comes near either limit.
UIntBits == 30
UIntRange == 2 ^ UIntBits
UIntMax == UIntRange - 1

\* enum RollUpKind
ACT_STATS_ROLLUP_KIND_START == "start"
ACT_STATS_ROLLUP_KIND_STOP == "stop"
ACT_STATS_ROLLUP_KIND_ONGOING == "ongoing"
RollUpKinds == { ACT_STATS_ROLLUP_KIND_START, ACT_STATS_ROLLUP_KIND_ONGOING,
                 ACT_STATS_ROLLUP_KIND_STOP }

\* enum EventLatency: the four classes, and a value below 0 for "no class"
EventLatency_Unspecified == -1
EventLatency_Normal == 1
EventLatency_CostDeferred == 2
EventLatency_RealTime == 3
EventLatency_Max == 4

\* enum EventRejectedReason
REJECTED_REASON_INVALID_CLIENT_MESSAGE_TYPE == 1
REJECTED_REASON_REQUIRED_ARGUMENT_MISSING == 2
REJECTED_REASON_EVENT_NAME_MISSING == 3
REJECTED_REASON_VALIDATION_FAILED == 4
REJECTED_REASON_OLD_RECORD_VERSION == 5
REJECTED_REASON_EVENT_EXPIRED == 6
REJECTED_REASON_SERVER_DECLINED == 7
REJECTED_REASON_TENANT_KILLED == 8
REJECTED_REASON_EVENT_SIZE_LIMIT_EXCEEDED == 9

\* enum EventDroppedReason
DROPPED_REASON_OFFLINE_STORAGE_SAVE_FAILED == 1
DROPPED_REASON_RETRY_EXCEEDED == 2

\* m_statsConfig: the histogram parameters
rtt_first_duration_in_millisecs == 100
rtt_next_factor == 2
rtt_total_spots == 4
latency_first_duration_in_millisecs == 10
latency_next_factor == 2
latency_total_spots == 3
record_size_first_in_kb == 1
record_size_next_factor == 10
record_size_total_spots == 5
storage_size_first_in_kb == 8
storage_size_next_factor == 2
storage_size_total_spots == 3

\* m_config.GetMetaStatsTenantToken() and GetMetaStatsSendIntervalSec()
MetaStatsTenantToken == << "s", "-", "k" >>
MetaStatsSendIntervalSec == 30

-----------------------------------------------------------------------------
(* Inputs the callers are drawn from *)

\* tenant tokens in std::map order; the second one has no '-'
TenantTokens == << << "a", "-", "x" >>, << "b" >> >>
Tokens == { TenantTokens[i] : i \in DOMAIN TenantTokens }
SessionIds == { << "uuid-1" >> }
Sizes == { 500, 2048 }
Latencies == { EventLatency_Unspecified, EventLatency_Normal, EventLatency_Max }
HttpCodes == { 400, 503 }
RetryTimes == { 2 }
Durations == { 150 }
PostLengths == { 2048 }
DroppedReasons == { DROPPED_REASON_OFFLINE_STORAGE_SAVE_FAILED, DROPPED_REASON_RETRY_EXCEEDED }
RejectedReasons == { REJECTED_REASON_VALIDATION_FAILED, REJECTED_REASON_OLD_RECORD_VERSION,
                     REJECTED_REASON_EVENT_EXPIRED }
\* tenant -> count maps of the dropped / overflown / rejected callbacks
CountMaps == { (TenantTokens[1] :> 3) @@ (TenantTokens[2] :> 1),
               (TenantTokens[2] :> 2) }
\* the arguments of updateOnEventIncoming: every token, size and class for the
\* tenants' events, one token and size for the metastats events
IncomingCalls ==
    [tenanttoken : Tokens, size : Sizes, latency : Latencies, metastats : {FALSE}]
    \cup [tenanttoken : {TenantTokens[1]}, size : {500},
          latency : {EventLatency_Unspecified, EventLatency_Normal}, metastats : {TRUE}]
\* (record id -> tenant token, latencies of the records) of one acknowledged package
SentPackages == { [ids |-> (1 :> TenantTokens[2]), latencyToSendMs |-> << 5 >>],
                  [ids |-> (1 :> TenantTokens[1]) @@ (2 :> TenantTokens[1]),
                   latencyToSendMs |-> << 25, 5 >>] }
\* the arguments of updateOnPackageSentSucceeded: the metastats-only packages
\* hold one record
SentCalls ==
    [pkg : SentPackages, eventLatency : Latencies, metastatsOnly : {FALSE}]
    \cup [pkg : {p \in SentPackages : Len(p.latencyToSendMs) = 1},
          eventLatency : Latencies, metastatsOnly : {TRUE}]
StorageFormats == { << "sqlite" >> }
\* the arguments of initDistributionKeys: a first value of 0, small ones, and
\* one whose double leaves the unsigned range
FirstValues == { 0, 1, 100, UIntRange \div 2 }
Increments == { 1, 2 }
TotalSpots == 0..MaxSpots
\* the values observed with updateMap
ObservedValues == { 0, 1, 150, UIntRange \div 2 }
FailureReasons == { << "io" >> }

-----------------------------------------------------------------------------
(* std::map<K, unsigned> helpers *)

EmptyMap == [k \in {} |-> 0]

\* the value operator[] returns, 0 for a key it has to insert
MapGet(m, k) == IF k \in DOMAIN m THEN m[k] ELSE 0

\* m[k] += n in unsigned arithmetic
MapAdd(m, k, n) ==
    [x \in DOMAIN m \cup {k} |-> IF x = k THEN (MapGet(m, k) + n) % UIntRange ELSE m[x]]

\* operator[] used for reading: inserts the key with value 0 when absent
MapTouch(m, k) == [x \in DOMAIN m \cup {k} |-> IF x \in DOMAIN m THEN m[x] ELSE 0]

RECURSIVE SumOver(_, _)
SumOver(m, keys) ==
    IF keys = {} THEN 0
    ELSE LET k == CHOOSE x \in keys : TRUE
         IN m[k] + SumOver(m, keys \ {k})

MapSum(m) == SumOver(m, DOMAIN m)

Max2(a, b) == IF a >= b THEN a ELSE b
Min2(a, b) == IF a <= b THEN a ELSE b

-----------------------------------------------------------------------------
(* Distribution helpers *)

\* the keys initDistributionKeys produces after key 0, in the order of its loop:
\* i runs from 1 while i < totalSpot, lastkey is the key of the previous round
RECURSIVE NextKeys(_, _, _, _, _, _)
NextKeys(i, lastkey, firstValue, increment, totalSpot, factor) ==
    IF i >= totalSpot THEN {}
    ELSE LET key == IF lastkey = 0 THEN firstValue
                    ELSE IF factor THEN (increment * lastkey) % UIntRange
                    ELSE (lastkey + increment) % UIntRange
         IN {key} \cup NextKeys(i + 1, key, firstValue, increment, totalSpot, factor)

\* initDistributionKeys: clear, distribution[0] = 0, then distribution[key] = 0
initDistributionKeys(firstValue, increment, totalSpot, factor) ==
    [k \in {0} \cup NextKeys(1, 0, firstValue, increment, totalSpot, factor) |-> 0]

\* updateMap without the step back from the first larger key: the value is
\* counted in the bucket above its own, in the last one when no key is larger
updateMap_upperBucket(distribution, value) ==
    IF DOMAIN distribution = {} THEN distribution
    ELSE LET above == { k \in DOMAIN distribution : value < k }
             last == CHOOSE k \in DOMAIN distribution :
                         \A j \in DOMAIN distribution : j <= k
             hit == IF above = {} THEN last
                    ELSE CHOOSE k \in above : \A j \in above : k <= j
         IN [distribution EXCEPT ![hit] = (@ + 1) % UIntRange]

\* updateMap with it->second = value in the place of it->second++: the bucket
\* holds the value observed last
updateMap_lastValue(distribution, value) ==
    IF DOMAIN distribution = {} THEN distribution
    ELSE LET below == { k \in DOMAIN distribution : k <= value }
             first == CHOOSE k \in DOMAIN distribution :
                          \A j \in DOMAIN distribution : k <= j
             hit == IF below = {} THEN first
                    ELSE CHOOSE k \in below : \A j \in below : j <= k
         IN [distribution EXCEPT ![hit] = value]

\* updateMap: count the value in the bucket with the largest key <= value,
\* in the first bucket when every key is larger; nothing on an empty map
updateMap(distribution, value) ==
    IF DOMAIN distribution = {} THEN distribution
    ELSE LET below == { k \in DOMAIN distribution : k <= value }
             first == CHOOSE k \in DOMAIN distribution :
                          \A j \in DOMAIN distribution : k <= j
             hit == IF below = {} THEN first
                    ELSE CHOOSE k \in below : \A j \in below : j <= k
         IN [distribution EXCEPT ![hit] = (@ + 1) % UIntRange]

\* distribution.clear() in the place of clearMapValues: the keys go as well
clearMapValues_clear(distribution) == [k \in {} |-> 0]

\* clearMapValues: every value becomes 0, the keys stay
clearMapValues(distribution) == [k \in DOMAIN distribution |-> 0]

-----------------------------------------------------------------------------
(* The statistics structures and their Reset() *)

\* PackageStats after Reset()
PackageStatsReset ==
    [ totalPkgsToBeAcked |-> 0,
      totalMetastatsOnlyPkgsToBeAcked |-> 0,
      totalPkgsNotToBeAcked |-> 0,
      totalPkgsAcked |-> 0,
      totalMetastatsOnlyPkgsAcked |-> 0,
      successPkgsAcked |-> 0,
      retryPkgsAcked |-> 0,
      dropPkgsAcked |-> 0,
      totalBandwidthConsumedInBytes |-> 0,
      dropPkgsPerHttpReturnCode |-> EmptyMap,
      retryPkgsPerHttpReturnCode |-> EmptyMap ]

\* LatencyStats after Reset(): max 0, min the largest unsigned, no buckets
LatencyStatsReset ==
    [ maxOfLatencyInMilliSecs |-> 0,
      minOfLatencyInMilliSecs |-> UIntMax,
      latencyDistribution |-> EmptyMap ]

\* RecordStats after Reset()
RecordStatsReset ==
    [ bannedCount |-> 0,
      receivedCount |-> 0,
      receivedMetastatsCount |-> 0,
      sentCount |-> 0,
      sentCountFromCurrentSession |-> 0,
      sentCountFromPreviousSession |-> 0,
      droppedCount |-> 0,
      overflownCount |-> 0,
      rejectedCount |-> 0,
      maxOfRecordSizeInBytes |-> 0,
      minOfRecordSizeInBytes |-> UIntMax,
      totalRecordsSizeInBytes |-> 0,
      sizeInKBytesDistribution |-> EmptyMap,
      semanticToRecordCountMap |-> EmptyMap,
      semanticToExceptionCountMap |-> EmptyMap,
      droppedCountReasonDistribution |-> EmptyMap,
      droppedCountPerHttpReturnCode |-> EmptyMap,
      rejectedCountReasonDistribution |-> EmptyMap ]

\* OfflineStorageStats after Reset()
OfflineStorageStatsReset ==
    [ storageFormat |-> << >>,
      lastFailureReason |-> << >>,
      fileSizeInBytes |-> 0,
      saveSizeInKBytesDistribution |-> EmptyMap,
      overwrittenSizeInKBytesDistribution |-> EmptyMap ]

\* a TelemetryStats as the tenant map's operator[] creates it
NewTelemetryStats ==
    [ tenantId |-> << >>,
      sessionId |-> << >>,
      sessionStartTimestamp |-> 0,
      statsStartTimestamp |-> 0,
      session_startup_time_in_millisec |-> 0,
      statsSequenceNum |-> 0,
      offlineStorageEnabled |-> FALSE,
      packageStats |-> PackageStatsReset,
      rttStats |-> LatencyStatsReset,
      logToSuccessfulSendLatencyPerLatency |-> EmptyMap,
      recordStats |-> RecordStatsReset,
      recordStatsPerLatency |-> EmptyMap,
      retriesCountDistribution |-> EmptyMap,
      offlineStorageStats |-> OfflineStorageStatsReset ]

\* std::map operator[] on the tenant map: the row, created when absent
RowOf(tenants, token) ==
    IF token \in DOMAIN tenants THEN tenants[token] ELSE NewTelemetryStats

\* the tenant map with the row of token replaced (inserted when absent)
PutRow(tenants, token, row) ==
    [t \in DOMAIN tenants \cup {token} |-> IF t = token THEN row ELSE tenants[t]]

\* operator[] on a map of RecordStats / LatencyStats
RecordStatsAt(m, latency) == IF latency \in DOMAIN m THEN m[latency] ELSE RecordStatsReset
LatencyStatsAt(m, latency) == IF latency \in DOMAIN m THEN m[latency] ELSE LatencyStatsReset
PutAt(m, latency, v) == [l \in DOMAIN m \cup {latency} |-> IF l = latency THEN v ELSE m[l]]

\* tenanttoken.substr(0, tenanttoken.find('-'))
RECURSIVE TenantIdOf(_)
TenantIdOf(token) ==
    IF token = << >> \/ Head(token) = "-" THEN << >>
    ELSE << Head(token) >> \o TenantIdOf(Tail(token))

-----------------------------------------------------------------------------
(* resetStats *)

\* the body of the loop of resetStats for one tenant row
ResetRow(ts, start, sessionId, time) ==
    LET base == [ts EXCEPT
                    !.packageStats = PackageStatsReset,
                    !.rttStats = LatencyStatsReset,
                    !.logToSuccessfulSendLatencyPerLatency = EmptyMap,
                    !.recordStats = RecordStatsReset,
                    !.recordStatsPerLatency =
                        [l \in DOMAIN ts.recordStatsPerLatency |-> RecordStatsReset],
                    !.offlineStorageStats = OfflineStorageStatsReset,
                    !.statsStartTimestamp = time,
                    !.sessionId = sessionId]
    IN IF start
       THEN [base EXCEPT
                !.statsSequenceNum = 0,
                !.sessionStartTimestamp = time,
                !.rttStats.latencyDistribution =
                    initDistributionKeys(rtt_first_duration_in_millisecs, rtt_next_factor,
                                         rtt_total_spots, TRUE),
                !.recordStats.sizeInKBytesDistribution =
                    initDistributionKeys(record_size_first_in_kb, record_size_next_factor,
                                         record_size_total_spots, TRUE),
                !.offlineStorageStats.saveSizeInKBytesDistribution =
                    IF base.offlineStorageEnabled
                    THEN initDistributionKeys(storage_size_first_in_kb, storage_size_next_factor,
                                              storage_size_total_spots, TRUE)
                    ELSE @,
                !.offlineStorageStats.overwrittenSizeInKBytesDistribution =
                    IF base.offlineStorageEnabled
                    THEN initDistributionKeys(storage_size_first_in_kb, storage_size_next_factor,
                                              storage_size_total_spots, TRUE)
                    ELSE @]
       ELSE [base EXCEPT
                !.statsSequenceNum = (@ + 1) % UIntRange,
                !.packageStats.dropPkgsPerHttpReturnCode = EmptyMap,
                !.packageStats.retryPkgsPerHttpReturnCode = EmptyMap,
                !.retriesCountDistribution = EmptyMap,
                !.rttStats.latencyDistribution = clearMapValues(@),
                !.logToSuccessfulSendLatencyPerLatency = EmptyMap,
                !.recordStats.semanticToRecordCountMap = clearMapValues(@),
                !.recordStats.semanticToExceptionCountMap = clearMapValues(@),
                !.recordStats.sizeInKBytesDistribution = clearMapValues(@),
                !.recordStats.droppedCountPerHttpReturnCode = EmptyMap,
                !.offlineStorageStats.saveSizeInKBytesDistribution =
                    IF base.offlineStorageEnabled THEN clearMapValues(@) ELSE @,
                !.offlineStorageStats.overwrittenSizeInKBytesDistribution =
                    IF base.offlineStorageEnabled THEN clearMapValues(@) ELSE @]

\* resetStats(start): every row of the tenant map, never the global row
resetStats(tenants, start, sessionId, time) ==
    [t \in DOMAIN tenants |-> ResetRow(tenants[t], start, sessionId, time)]

-----------------------------------------------------------------------------
(* Building a record: privateSnapStatsToRecord and its helpers *)

Digits == << "0", "1", "2", "3", "4", "5", "6", "7", "8", "9" >>

\* toString(value) of an unsigned number: its decimal digits
RECURSIVE toString(_)
toString(n) ==
    IF n < 10 THEN << Digits[n + 1] >>
    ELSE toString(n \div 10) \o << Digits[(n % 10) + 1] >>

\* a record key that is a literal
Key(name) == << name >>

\* prefix + "_" + toString(code)
CodeKey(prefix, code) == << prefix, "_" >> \o toString(code)

\* target[key] = value, as one pending write
Set(key, value) == << [k |-> key, v |-> value] >>

\* an insert without the test for 0
insertNonZero_always(key, value) == Set(key, toString(value))

\* insertNonZero: the write happens only for a value other than 0
insertNonZero(key, value) == IF value # 0 THEN Set(key, toString(value)) ELSE << >>

\* the keys of a map in increasing order, as std::map iterates them
RECURSIVE SortedKeys(_)
SortedKeys(keys) ==
    IF keys = {} THEN << >>
    ELSE LET least == CHOOSE k \in keys : \A j \in keys : k <= j
         IN << least >> \o SortedKeys(keys \ {least})

\* the text with every bucket written as a single point, whatever range says
RECURSIVE FieldValue_points(_, _, _, _)
FieldValue_points(distribution, order, i, range) ==
    IF i > Len(order) THEN << >>
    ELSE toString(order[i]) \o << ":" >> \o toString(distribution[order[i]])
         \o (IF i = Len(order) THEN << >> ELSE << "," >>)
         \o FieldValue_points(distribution, order, i + 1, range)

\* the text addAggregatedMapToRecordFields builds for the buckets from position i on
RECURSIVE FieldValue(_, _, _, _)
FieldValue(distribution, order, i, range) ==
    IF i > Len(order) THEN << >>
    ELSE LET key == order[i]
             cnt == distribution[key]
         IN IF i = Len(order)
            THEN (IF range THEN << ">" >> ELSE << >>)
                 \o toString(key) \o << ":" >> \o toString(cnt)
            ELSE (IF range
                  THEN toString(key) \o << "-" >> \o toString(order[i + 1])
                  ELSE toString(key))
                 \o << ":" >> \o toString(cnt) \o << "," >>
                 \o FieldValue(distribution, order, i + 1, range)

\* addAggregatedMapToRecordFields for an unsigned -> unsigned map
addAggregatedMapToRecordFields(distributionName, distribution, range) ==
    IF DOMAIN distribution = {} THEN << >>
    ELSE Set(Key(distributionName),
             FieldValue(distribution, SortedKeys(DOMAIN distribution), 1, range))

\* addCountsPerHttpReturnCodeToRecordFields, codes in increasing order
RECURSIVE CodeFields(_, _, _, _)
CodeFields(prefix, m, order, i) ==
    IF i > Len(order) THEN << >>
    ELSE insertNonZero(CodeKey(prefix, order[i]), m[order[i]])
         \o CodeFields(prefix, m, order, i + 1)

addCountsPerHttpReturnCodeToRecordFields(prefix, m) ==
    CodeFields(prefix, m, SortedKeys(DOMAIN m), 1)

\* addRecordsPerRejectedReasonToRecordFields: nine insertNonZero in this order
addRecordsPerRejectedReasonToRecordFields(m) ==
    insertNonZero(Key("r_inv"), MapGet(m, REJECTED_REASON_INVALID_CLIENT_MESSAGE_TYPE))
    \o insertNonZero(Key("r_inv"), MapGet(m, REJECTED_REASON_REQUIRED_ARGUMENT_MISSING))
    \o insertNonZero(Key("r_inv"), MapGet(m, REJECTED_REASON_EVENT_NAME_MISSING))
    \o insertNonZero(Key("r_inv"), MapGet(m, REJECTED_REASON_VALIDATION_FAILED))
    \o insertNonZero(Key("r_inv"), MapGet(m, REJECTED_REASON_OLD_RECORD_VERSION))
    \o insertNonZero(Key("r_exp"), MapGet(m, REJECTED_REASON_EVENT_EXPIRED))
    \o insertNonZero(Key("r_403"), MapGet(m, REJECTED_REASON_SERVER_DECLINED))
    \o insertNonZero(Key("r_kl"), MapGet(m, REJECTED_REASON_TENANT_KILLED))
    \o insertNonZero(Key("r_size"), MapGet(m, REJECTED_REASON_EVENT_SIZE_LIMIT_EXCEEDED))

\* the reasons the function above reads with operator[]
RejectedReasonsRead ==
    { REJECTED_REASON_INVALID_CLIENT_MESSAGE_TYPE, REJECTED_REASON_REQUIRED_ARGUMENT_MISSING,
      REJECTED_REASON_EVENT_NAME_MISSING, REJECTED_REASON_VALIDATION_FAILED,
      REJECTED_REASON_OLD_RECORD_VERSION, REJECTED_REASON_EVENT_EXPIRED,
      REJECTED_REASON_SERVER_DECLINED, REJECTED_REASON_TENANT_KILLED,
      REJECTED_REASON_EVENT_SIZE_LIMIT_EXCEEDED }

\* the writes in the order the code makes them: a later write to a key replaces
\* an earlier one (ext[key] = temp)
ApplyWrites(writes) ==
    LET keys == { writes[i].k : i \in DOMAIN writes }
        last(key) == CHOOSE i \in DOMAIN writes :
                        /\ writes[i].k = key
                        /\ \A j \in DOMAIN writes : writes[j].k = key => j <= i
    IN [key \in keys |-> writes[last(key)].v]

\* the storage fields, written only when offline storage is enabled
StorageFields(ts) ==
    IF ts.offlineStorageEnabled
    THEN Set(Key("off_type"), ts.offlineStorageStats.storageFormat)
         \o (IF ts.offlineStorageStats.lastFailureReason # << >>
             THEN Set(Key("off_last_failure"), ts.offlineStorageStats.lastFailureReason)
             ELSE << >>)
         \o insertNonZero(Key("config_off_size"), ts.offlineStorageStats.fileSizeInBytes)
    ELSE << >>

\* package stats, retries distribution and RTT stats
PackageFields(ts) ==
    LET ps == ts.packageStats
    IN insertNonZero(Key("rqs_not_to_be_acked"), ps.totalPkgsNotToBeAcked)
       \o insertNonZero(Key("rqs_to_be_acked"), ps.totalPkgsToBeAcked)
       \o insertNonZero(Key("rqs_acked"), ps.totalPkgsAcked)
       \o insertNonZero(Key("rqs_acked_succ"), ps.successPkgsAcked)
       \o insertNonZero(Key("rqs_acked_ret"), ps.retryPkgsAcked)
       \o insertNonZero(Key("rqs_acked_drp"), ps.dropPkgsAcked)
       \o addCountsPerHttpReturnCodeToRecordFields("rqs_acked_drp_on_HTTP",
                                                   ps.dropPkgsPerHttpReturnCode)
       \o addCountsPerHttpReturnCodeToRecordFields("rqs_acked_ret_on_HTTP",
                                                   ps.retryPkgsPerHttpReturnCode)
       \o insertNonZero(Key("rm_bw_bytes_consumed_count"), ps.totalBandwidthConsumedInBytes)
       \o (IF ps.totalPkgsAcked > 0
           THEN addAggregatedMapToRecordFields("rqs_fail_on_HTTP_retries_count_distribution",
                                               ts.retriesCountDistribution, FALSE)
           ELSE << >>)
       \o (IF ps.successPkgsAcked > 0
           THEN insertNonZero(Key("rtt_millisec_max"), ts.rttStats.maxOfLatencyInMilliSecs)
                \o insertNonZero(Key("rtt_millisec_min"), ts.rttStats.minOfLatencyInMilliSecs)
                \o addAggregatedMapToRecordFields("rtt_millisec_distribution",
                                                  ts.rttStats.latencyDistribution, TRUE)
           ELSE << >>)

\* the record stats of the row
RecordFields(ts) ==
    LET rs == ts.recordStats
    IN insertNonZero(Key("r_ban"), rs.bannedCount)
       \o insertNonZero(Key("rcv"), rs.receivedCount)
       \o insertNonZero(Key("snt"), rs.sentCount)
       \o insertNonZero(Key("rcds_sent_curr_session"), rs.sentCountFromCurrentSession)
       \o insertNonZero(Key("rcds_sent_prev_session"), rs.sentCountFromPreviousSession)
       \o insertNonZero(Key("rej"), rs.rejectedCount)
       \o addRecordsPerRejectedReasonToRecordFields(rs.rejectedCountReasonDistribution)
       \o insertNonZero(Key("drp"), rs.droppedCount)
       \o insertNonZero(Key("d_disk_full"), rs.overflownCount)
       \o insertNonZero(Key("d_io_fail"),
              MapGet(rs.droppedCountReasonDistribution, DROPPED_REASON_OFFLINE_STORAGE_SAVE_FAILED))
       \o insertNonZero(Key("d_retry_lmt"),
              MapGet(rs.droppedCountReasonDistribution, DROPPED_REASON_RETRY_EXCEEDED))
       \o addCountsPerHttpReturnCodeToRecordFields("rcds_drp_on_HTTP",
                                                   rs.droppedCountPerHttpReturnCode)
       \o addAggregatedMapToRecordFields("exceptions_per_eventtype_count",
                                         rs.semanticToExceptionCountMap, FALSE)
       \o addAggregatedMapToRecordFields("rcds_per_eventtype_count",
                                         rs.semanticToRecordCountMap, FALSE)
       \o (IF rs.receivedCount > 0
           THEN insertNonZero(Key("rcd_size_bytes_max"), rs.maxOfRecordSizeInBytes)
                \o insertNonZero(Key("rcd_size_bytes_min"), rs.minOfRecordSizeInBytes)
                \o insertNonZero(Key("rcds_received_size_bytes"), rs.totalRecordsSizeInBytes)
                \o addAggregatedMapToRecordFields("rcd_size_kb_distribution",
                                                  rs.sizeInKBytesDistribution, TRUE)
           ELSE << >>)

\* the trailing part of a per-priority block: received size and send latency
PriorityTail(ts, latency, sizeKey, maxKey, minKey, distKey) ==
    LET rs == RecordStatsAt(ts.recordStatsPerLatency, latency)
        ls == LatencyStatsAt(ts.logToSuccessfulSendLatencyPerLatency, latency)
    IN (IF rs.receivedCount > 0
        THEN insertNonZero(Key(sizeKey), rs.totalRecordsSizeInBytes)
        ELSE << >>)
       \o (IF rs.sentCount > 0
           THEN insertNonZero(Key(maxKey), ls.maxOfLatencyInMilliSecs)
                \o insertNonZero(Key(minKey), ls.minOfLatencyInMilliSecs)
                \o addAggregatedMapToRecordFields(distKey, ls.latencyDistribution, TRUE)
           ELSE << >>)

\* "Low priority RecordStats": EventLatency_Normal
NormalFields(ts) ==
    LET rs == RecordStatsAt(ts.recordStatsPerLatency, EventLatency_Normal)
    IN insertNonZero(Key("ln_r_ban"), rs.bannedCount)
       \o insertNonZero(Key("ln_rcv"), rs.receivedCount)
       \o insertNonZero(Key("ln_snt"), rs.sentCount)
       \o insertNonZero(Key("ln_rcds_sent_count_current_session"), rs.sentCountFromCurrentSession)
       \o insertNonZero(Key("ln_rcds_sent_count_previous_sessions"), rs.sentCountFromPreviousSession)
       \o insertNonZero(Key("ln_drp"), rs.droppedCount)
       \o insertNonZero(Key("ln_d_disk_full"), rs.overflownCount)
       \o insertNonZero(Key("ln_rej"), rs.rejectedCount)
       \o PriorityTail(ts, EventLatency_Normal, "ln_rcds_received_size_bytes",
                       "ln_log_to_successful_send_latency_millisec_max",
                       "n_log_to_successful_send_latency_millisec_min",
                       "ln_log_to_successful_send_latency_millisec_distribution")

\* "Normal priority RecordStats": EventLatency_CostDeferred
CostDeferredFields(ts) ==
    LET rs == RecordStatsAt(ts.recordStatsPerLatency, EventLatency_CostDeferred)
    IN insertNonZero(Key("ld_r_ban"), rs.bannedCount)
       \o insertNonZero(Key("ld_rcv"), rs.receivedCount)
       \o insertNonZero(Key("ld_snt"), rs.sentCount)
       \o insertNonZero(Key("ld_rcds_sent_count_current_session"), rs.sentCountFromCurrentSession)
       \o insertNonZero(Key("ld_rcds_sent_count_previous_sessions"), rs.sentCountFromPreviousSession)
       \o insertNonZero(Key("ld_drp"), rs.droppedCount)
       \o insertNonZero(Key("ld_d_disk_full"), rs.overflownCount)
       \o insertNonZero(Key("ld_rej"), rs.rejectedCount)
       \o PriorityTail(ts, EventLatency_CostDeferred, "ld_rcds_received_size_bytes",
                       "ld_log_to_successful_send_latency_millisec_max",
                       "ld_log_to_successful_send_latency_millisec_min",
                       "ld_log_to_successful_send_latency_millisec_distribution")

\* "High priority RecordStats": EventLatency_RealTime; its overflown line writes
\* ld_d_disk_full from the CostDeferred stats
RealTimeFields(ts) ==
    LET rs == RecordStatsAt(ts.recordStatsPerLatency, EventLatency_RealTime)
        normalPriorityrecordStats ==
            RecordStatsAt(ts.recordStatsPerLatency, EventLatency_CostDeferred)
    IN insertNonZero(Key("lr_r_ban"), rs.bannedCount)
       \o insertNonZero(Key("lr_rcv"), rs.receivedCount)
       \o insertNonZero(Key("lr_snt"), rs.sentCount)
       \o insertNonZero(Key("lr_rcds_sent_count_current_session"), rs.sentCountFromCurrentSession)
       \o insertNonZero(Key("lr_rcds_sent_count_previous_sessions"), rs.sentCountFromPreviousSession)
       \o insertNonZero(Key("lr_drp"), rs.droppedCount)
       \o insertNonZero(Key("ld_d_disk_full"), normalPriorityrecordStats.overflownCount)
       \o insertNonZero(Key("lr_rej"), rs.rejectedCount)
       \o PriorityTail(ts, EventLatency_RealTime, "lr_rcds_received_size_bytes",
                       "lr_log_to_successful_send_latency_millisec_max",
                       "lr_log_to_successful_send_latency_millisec_min",
                       "lr_log_to_successful_send_latency_millisec_distribution")

\* the Max block with its second lm_snt line fed from receivedCount
MaxFields_sntFromReceived(ts) ==
    LET rs == RecordStatsAt(ts.recordStatsPerLatency, EventLatency_Max)
    IN insertNonZero(Key("lm_r_ban"), rs.bannedCount)
       \o insertNonZero(Key("lm_rcv"), rs.receivedCount)
       \o insertNonZero(Key("lm_snt"), rs.sentCount)
       \o insertNonZero(Key("lm_rcds_sent_count_current_session"), rs.sentCountFromCurrentSession)
       \o insertNonZero(Key("lm_rcds_sent_count_previous_sessions"), rs.sentCountFromPreviousSession)
       \o insertNonZero(Key("lm_drp"), rs.droppedCount)
       \o insertNonZero(Key("lm_snt"), rs.receivedCount)
       \o PriorityTail(ts, EventLatency_Max, "lm_rcds_received_size_bytes",
                       "lm_log_to_successful_send_latency_millisec_max",
                       "lm_log_to_successful_send_latency_millisec_min",
                       "lm_log_to_successful_send_latency_millisec_distribution")

\* "Immediate priority RecordStats": EventLatency_Max; its rejected line writes lm_snt
MaxFields(ts) ==
    LET rs == RecordStatsAt(ts.recordStatsPerLatency, EventLatency_Max)
    IN insertNonZero(Key("lm_r_ban"), rs.bannedCount)
       \o insertNonZero(Key("lm_rcv"), rs.receivedCount)
       \o insertNonZero(Key("lm_snt"), rs.sentCount)
       \o insertNonZero(Key("lm_rcds_sent_count_current_session"), rs.sentCountFromCurrentSession)
       \o insertNonZero(Key("lm_rcds_sent_count_previous_sessions"), rs.sentCountFromPreviousSession)
       \o insertNonZero(Key("lm_drp"), rs.droppedCount)
       \o insertNonZero(Key("lm_snt"), rs.rejectedCount)
       \o PriorityTail(ts, EventLatency_Max, "lm_rcds_received_size_bytes",
                       "lm_log_to_successful_send_latency_millisec_max",
                       "lm_log_to_successful_send_latency_millisec_min",
                       "lm_log_to_successful_send_latency_millisec_distribution")

\* a snapshot that takes act_stats_id from the row instead of the engine
RecordSessionId_ofRow(ts, sessionId) == ts.sessionId

\* the session id a record carries as act_stats_id
RecordSessionId(ts, sessionId) == sessionId

\* privateSnapStatsToRecord: the record pushed for one row
privateSnapStatsToRecord(rollupKind, ts, sessionId, time) ==
    [ baseType |-> "act_stats",
      name |-> "act_stats",
      iKey |-> << "o", ":" >> \o TenantIdOf(MetaStatsTenantToken),
      ext |-> ApplyWrites(
          Set(Key("act_stats_id"), RecordSessionId(ts, sessionId))
          \o insertNonZero(Key("s_stime"), ts.sessionStartTimestamp)
          \o insertNonZero(Key("stats_stime"), ts.statsStartTimestamp)
          \o insertNonZero(Key("s_Firststime"), ts.session_startup_time_in_millisec)
          \o insertNonZero(Key("stats_etime"), time)
          \o Set(Key("stats_rollup_kind"), << rollupKind >>)
          \o insertNonZero(Key("st_freq"), MetaStatsSendIntervalSec)
          \o StorageFields(ts)
          \o PackageFields(ts)
          \o RecordFields(ts)
          \o NormalFields(ts)
          \o CostDeferredFields(ts)
          \o RealTimeFields(ts)
          \o MaxFields(ts)) ]

\* the entries privateSnapStatsToRecord inserts into the row's own maps by
\* reading them with operator[]
SnapTouch(ts) ==
    LET classes == { EventLatency_Normal, EventLatency_CostDeferred,
                     EventLatency_RealTime, EventLatency_Max }
        perLatency == [l \in DOMAIN ts.recordStatsPerLatency \cup classes |->
                          RecordStatsAt(ts.recordStatsPerLatency, l)]
        sentClasses == { l \in classes : perLatency[l].sentCount > 0 }
    IN [ts EXCEPT
           !.recordStats.rejectedCountReasonDistribution =
               [r \in DOMAIN @ \cup RejectedReasonsRead |-> MapGet(@, r)],
           !.recordStats.droppedCountReasonDistribution =
               [r \in DOMAIN @ \cup { DROPPED_REASON_OFFLINE_STORAGE_SAVE_FAILED,
                                      DROPPED_REASON_RETRY_EXCEEDED } |-> MapGet(@, r)],
           !.recordStatsPerLatency = perLatency,
           !.logToSuccessfulSendLatencyPerLatency =
               [l \in DOMAIN @ \cup sentClasses |-> LatencyStatsAt(@, l)]]

-----------------------------------------------------------------------------
(* snapStatsToRecord, clearStats, hasStatsDataAvailable *)

\* the tokens of the tenant map in the order std::map iterates them
TokenOrder(tenants) == SelectSeq(TenantTokens, LAMBDA t : t \in DOMAIN tenants)

\* the global row as snapStatsToRecord sets its tenantId before the snapshot
GlobalForSnap(global) == [global EXCEPT !.tenantId = TenantIdOf(MetaStatsTenantToken)]

\* a snapshot that adds the global row's record for every rollup kind
SnapsGlobal_always(rollupKind) == TRUE

\* whether snapStatsToRecord adds the record of the global row
SnapsGlobal(rollupKind) == rollupKind # ACT_STATS_ROLLUP_KIND_ONGOING

\* snapStatsToRecord: one record per tenant row, then the global row unless Ongoing
snapStatsToRecord(rollupKind, tenants, global, sessionId, time) ==
    LET order == TokenOrder(tenants)
    IN [i \in 1..Len(order) |->
           privateSnapStatsToRecord(rollupKind, tenants[order[i]], sessionId, time)]
       \o (IF SnapsGlobal(rollupKind)
           THEN << privateSnapStatsToRecord(rollupKind, GlobalForSnap(global), sessionId, time) >>
           ELSE << >>)

\* a clear that also puts the received and posted counters back to 0
privateClearStats_counters(ts) ==
    [ts EXCEPT
        !.packageStats.dropPkgsPerHttpReturnCode = EmptyMap,
        !.packageStats.retryPkgsPerHttpReturnCode = EmptyMap,
        !.packageStats.totalPkgsToBeAcked = 0,
        !.retriesCountDistribution = EmptyMap,
        !.rttStats.latencyDistribution = EmptyMap,
        !.logToSuccessfulSendLatencyPerLatency = EmptyMap,
        !.recordStats.receivedCount = 0,
        !.recordStats.sizeInKBytesDistribution = EmptyMap,
        !.recordStats.semanticToRecordCountMap = EmptyMap,
        !.recordStats.semanticToExceptionCountMap = EmptyMap,
        !.recordStats.droppedCountPerHttpReturnCode = EmptyMap,
        !.offlineStorageStats.saveSizeInKBytesDistribution = EmptyMap,
        !.offlineStorageStats.overwrittenSizeInKBytesDistribution = EmptyMap]

\* privateClearStats: the maps it clears; counters and the other maps stay
privateClearStats(ts) ==
    [ts EXCEPT
        !.packageStats.dropPkgsPerHttpReturnCode = EmptyMap,
        !.packageStats.retryPkgsPerHttpReturnCode = EmptyMap,
        !.retriesCountDistribution = EmptyMap,
        !.rttStats.latencyDistribution = EmptyMap,
        !.logToSuccessfulSendLatencyPerLatency = EmptyMap,
        !.recordStats.sizeInKBytesDistribution = EmptyMap,
        !.recordStats.semanticToRecordCountMap = EmptyMap,
        !.recordStats.semanticToExceptionCountMap = EmptyMap,
        !.recordStats.droppedCountPerHttpReturnCode = EmptyMap,
        !.offlineStorageStats.saveSizeInKBytesDistribution = EmptyMap,
        !.offlineStorageStats.overwrittenSizeInKBytesDistribution = EmptyMap]

\* clearStats on the tenant map: every row is cleared, no row is erased
clearTenantStats(tenants) == [t \in DOMAIN tenants |-> privateClearStats(tenants[t])]

\* the sum a loop over the tenant rows accumulates, in unsigned arithmetic
TenantSum(values) == SumOver(values, DOMAIN values) % UIntRange

\* hasStatsDataAvailable with the comparison of the acked packages left out
hasStatsDataAvailable_noAcked(tenants, global) ==
    LET rejectedCount == TenantSum([t \in DOMAIN tenants |-> tenants[t].recordStats.rejectedCount])
        bannedCount == TenantSum([t \in DOMAIN tenants |-> tenants[t].recordStats.bannedCount])
        droppedCount == TenantSum([t \in DOMAIN tenants |-> tenants[t].recordStats.droppedCount])
        receivedCountnotStats ==
            TenantSum([t \in DOMAIN tenants |->
                          (tenants[t].recordStats.receivedCount
                           - tenants[t].recordStats.receivedMetastatsCount) % UIntRange])
    IN \/ rejectedCount > 0
       \/ bannedCount > 0
       \/ droppedCount > 0
       \/ receivedCountnotStats > 0
       \/ global.packageStats.totalPkgsToBeAcked
            > global.packageStats.totalMetastatsOnlyPkgsToBeAcked

\* hasStatsDataAvailable
hasStatsDataAvailable(tenants, global) ==
    LET rejectedCount == TenantSum([t \in DOMAIN tenants |-> tenants[t].recordStats.rejectedCount])
        bannedCount == TenantSum([t \in DOMAIN tenants |-> tenants[t].recordStats.bannedCount])
        droppedCount == TenantSum([t \in DOMAIN tenants |-> tenants[t].recordStats.droppedCount])
        receivedCountnotStats ==
            TenantSum([t \in DOMAIN tenants |->
                          (tenants[t].recordStats.receivedCount
                           - tenants[t].recordStats.receivedMetastatsCount) % UIntRange])
    IN \/ rejectedCount > 0
       \/ bannedCount > 0
       \/ droppedCount > 0
       \/ receivedCountnotStats > 0
       \/ global.packageStats.totalPkgsAcked
            > global.packageStats.totalMetastatsOnlyPkgsAcked
       \/ global.packageStats.totalPkgsToBeAcked
            > global.packageStats.totalMetastatsOnlyPkgsToBeAcked

\* a gate that lets every rollup through
ShouldSnapshot_always(rollupKind, tenants, global) == TRUE

\* the condition of generateStatsEvent under which it snapshots and resets
ShouldSnapshot(rollupKind, tenants, global) ==
    hasStatsDataAvailable(tenants, global) \/ rollupKind # ACT_STATS_ROLLUP_KIND_ONGOING

\* the argument generateStatsEvent passes to resetStats
ResetStartArg(rollupKind) == FALSE

-----------------------------------------------------------------------------
(* The state after construction *)

\* m_telemetryStats after the constructor
InitialGlobalStats ==
    [NewTelemetryStats EXCEPT
        !.statsStartTimestamp = 1,
        !.session_startup_time_in_millisec = 1,
        !.offlineStorageEnabled = TRUE]

Idle == [at |-> "idle", len |-> 0, metastatsOnly |-> FALSE]

Init ==
    /\ m_sessionId \in SessionIds
    /\ m_telemetryStats = InitialGlobalStats
    \* the constructor's resetStats(true) runs over the still empty tenant map
    /\ m_telemetryTenantStats = resetStats([t \in {} |-> NewTelemetryStats], TRUE, << >>, 1)
    /\ now = 1
    /\ lastOp = [op |-> "MetaStats"]
    /\ records = << >>
    /\ available = FALSE
    /\ onlyMetaStats = TRUE
    /\ mutations = 0
    /\ pc = [t \in 1..NThreads |-> Idle]
    /\ tmp = [t \in 1..NThreads |-> 0]
    /\ started = 0
    /\ dist = EmptyMap
    /\ m_dataViewerCollection = << >>
    /\ rollup = [at |-> "idle"]
    /\ issued = [t \in Tokens |-> 0]
    /\ reported = [t \in Tokens |-> 0]

\* what every call of the sequential specification does besides its own effect
Call(op, metaTraffic, mutator) ==
    /\ now <= MaxOps
    /\ mutator => mutations < MaxMutations
    /\ now' = now + 1
    /\ mutations' = IF mutator THEN mutations + 1 ELSE mutations
    /\ lastOp' = op
    /\ onlyMetaStats' = (onlyMetaStats /\ metaTraffic)
    /\ UNCHANGED << m_sessionId, threads, dist, others >>

-----------------------------------------------------------------------------
(* Readers and the rollup *)

HasStatsDataAvailable ==
    /\ Call([op |-> "hasStatsDataAvailable"], TRUE, FALSE)
    /\ available' = hasStatsDataAvailable(m_telemetryTenantStats, m_telemetryStats)
    /\ records' = << >>
    /\ UNCHANGED << m_telemetryStats, m_telemetryTenantStats >>

\* generateStatsEvent(rollupKind)
GenerateStatsEvent(rollupKind) ==
    LET time == now + 1
        snap == ShouldSnapshot(rollupKind, m_telemetryTenantStats, m_telemetryStats)
        \* snapStatsToRecord reads the rows with operator[]
        tenants1 == IF snap
                    THEN [t \in DOMAIN m_telemetryTenantStats |->
                             SnapTouch(m_telemetryTenantStats[t])]
                    ELSE m_telemetryTenantStats
        global1 == IF snap /\ SnapsGlobal(rollupKind)
                   THEN SnapTouch(GlobalForSnap(m_telemetryStats))
                   ELSE m_telemetryStats
        tenants2 == IF snap
                    THEN resetStats(tenants1, ResetStartArg(rollupKind), m_sessionId, time)
                    ELSE tenants1
        stop == rollupKind = ACT_STATS_ROLLUP_KIND_STOP
    IN /\ Call([op |-> "generateStatsEvent", rollupKind |-> rollupKind], TRUE, FALSE)
       /\ records' = IF snap
                     THEN snapStatsToRecord(rollupKind, m_telemetryTenantStats,
                                            m_telemetryStats, m_sessionId, time)
                     ELSE << >>
       /\ m_telemetryTenantStats' = IF stop THEN clearTenantStats(tenants2) ELSE tenants2
       /\ m_telemetryStats' = IF stop THEN privateClearStats(global1) ELSE global1
       /\ available' = FALSE

-----------------------------------------------------------------------------
(* Mutators *)

\* an incoming record whose size is totalled in kilobytes, as the histogram takes it
RecordIncoming_totalInKb(rs, size) ==
    [rs EXCEPT
        !.receivedCount = (@ + 1) % UIntRange,
        !.sizeInKBytesDistribution = updateMap(@, size \div 1024),
        !.maxOfRecordSizeInBytes = Max2(@, size),
        !.minOfRecordSizeInBytes = Min2(@, size),
        !.totalRecordsSizeInBytes = (@ + size \div 1024) % UIntRange]

\* received count, size histogram, max, min and total of one incoming record
RecordIncoming(rs, size) ==
    [rs EXCEPT
        !.receivedCount = (@ + 1) % UIntRange,
        !.sizeInKBytesDistribution = updateMap(@, size \div 1024),
        !.maxOfRecordSizeInBytes = Max2(@, size),
        !.minOfRecordSizeInBytes = Min2(@, size),
        !.totalRecordsSizeInBytes = (@ + size) % UIntRange]

\* the per-class part of updateOnEventIncoming, skipped for a class below 0
PerLatencyIncoming(perLatency, latency, size) ==
    IF latency >= 0
    THEN PutAt(perLatency, latency,
               [RecordStatsAt(perLatency, latency) EXCEPT
                   !.receivedCount = (@ + 1) % UIntRange,
                   !.totalRecordsSizeInBytes = (@ + size) % UIntRange])
    ELSE perLatency

\* the tenant part of updateOnEventIncoming
IncomingTenantRow(row, token, size, latency) ==
    [row EXCEPT
        !.tenantId = IF @ = << >> THEN TenantIdOf(token) ELSE @,
        !.recordStats = RecordIncoming(@, size),
        !.recordStatsPerLatency = PerLatencyIncoming(@, latency, size)]

\* a global part that leaves receivedMetastatsCount alone
IncomingGlobalRow_noMetastatsCount(global, size, latency, metastats) ==
    [global EXCEPT
        !.recordStats = RecordIncoming(@, size),
        !.recordStatsPerLatency = PerLatencyIncoming(@, latency, size)]

\* the global part of updateOnEventIncoming
IncomingGlobalRow(global, size, latency, metastats) ==
    [global EXCEPT
        !.recordStats =
            [RecordIncoming(@, size) EXCEPT
                !.receivedMetastatsCount = IF metastats THEN (@ + 1) % UIntRange ELSE @],
        !.recordStatsPerLatency = PerLatencyIncoming(@, latency, size)]

UpdateOnEventIncoming(tenanttoken, size, latency, metastats) ==
    /\ Call([op |-> "updateOnEventIncoming", tenanttoken |-> tenanttoken, size |-> size,
             latency |-> latency, metastats |-> metastats], metastats, TRUE)
    /\ m_telemetryTenantStats' =
           IF metastats THEN m_telemetryTenantStats
           ELSE PutRow(m_telemetryTenantStats, tenanttoken,
                       IncomingTenantRow(RowOf(m_telemetryTenantStats, tenanttoken),
                                         tenanttoken, size, latency))
    /\ m_telemetryStats' = IncomingGlobalRow(m_telemetryStats, size, latency, metastats)
    /\ records' = << >>
    /\ available' = FALSE

\* updateOnPostData that counts a metastats-only package under its own
\* counter alone
PostData_metastatsAlone(ps, postDataLength, metastatsOnly) ==
    [ps EXCEPT
        !.totalBandwidthConsumedInBytes = (@ + postDataLength) % UIntRange,
        !.totalPkgsToBeAcked = IF metastatsOnly THEN @ ELSE (@ + 1) % UIntRange,
        !.totalMetastatsOnlyPkgsToBeAcked = IF metastatsOnly THEN (@ + 1) % UIntRange ELSE @]

\* updateOnPostData that never counts a package as metastats-only
PostData_noMetastatsOnly(ps, postDataLength, metastatsOnly) ==
    [ps EXCEPT
        !.totalBandwidthConsumedInBytes = (@ + postDataLength) % UIntRange,
        !.totalPkgsToBeAcked = (@ + 1) % UIntRange]

\* updateOnPostData that assigns the length of the post instead of adding it
PostData_assignsBandwidth(ps, postDataLength, metastatsOnly) ==
    [ps EXCEPT
        !.totalBandwidthConsumedInBytes = postDataLength % UIntRange,
        !.totalPkgsToBeAcked = (@ + 1) % UIntRange,
        !.totalMetastatsOnlyPkgsToBeAcked = IF metastatsOnly THEN (@ + 1) % UIntRange ELSE @]

\* the package stats after updateOnPostData
PostData(ps, postDataLength, metastatsOnly) ==
    [ps EXCEPT
        !.totalBandwidthConsumedInBytes = (@ + postDataLength) % UIntRange,
        !.totalPkgsToBeAcked = (@ + 1) % UIntRange,
        !.totalMetastatsOnlyPkgsToBeAcked = IF metastatsOnly THEN (@ + 1) % UIntRange ELSE @]

UpdateOnPostData(postDataLength, metastatsOnly) ==
    /\ Call([op |-> "updateOnPostData", postDataLength |-> postDataLength,
             metastatsOnly |-> metastatsOnly], metastatsOnly, TRUE)
    /\ m_telemetryStats' =
           [m_telemetryStats EXCEPT !.packageStats = PostData(@, postDataLength, metastatsOnly)]
    /\ records' = << >>
    /\ available' = FALSE
    /\ UNCHANGED m_telemetryTenantStats

\* one latency observed into a LatencyStats: histogram, max, min
\* the observation that keeps the last value as the largest and the smallest
ObserveLatency_lastValue(ls, ms) ==
    [ls EXCEPT
        !.latencyDistribution = updateMap(@, ms),
        !.maxOfLatencyInMilliSecs = ms,
        !.minOfLatencyInMilliSecs = ms]

ObserveLatency(ls, ms) ==
    [ls EXCEPT
        !.latencyDistribution = updateMap(@, ms),
        !.maxOfLatencyInMilliSecs = Max2(@, ms),
        !.minOfLatencyInMilliSecs = Min2(@, ms)]

\* the loop over latencyToSendMs from position i on
RECURSIVE ObserveAll(_, _, _)
ObserveAll(ls, latencyToSendMs, i) ==
    IF i > Len(latencyToSendMs) THEN ls
    ELSE ObserveAll(ObserveLatency(ls, latencyToSendMs[i]), latencyToSendMs, i + 1)

\* sentCount and sentCountFromCurrentSession raised by n (the branch if (1))
AddSent(rs, n) ==
    [rs EXCEPT
        !.sentCount = (@ + n) % UIntRange,
        !.sentCountFromCurrentSession = (@ + n) % UIntRange]

\* send latencies and sent counts of one row; operator[] creates the latency
\* entry for every class, the per-class record stats only for a class >= 0
SentRow(ts, eventLatency, latencyToSendMs, n) ==
    [ts EXCEPT
        !.logToSuccessfulSendLatencyPerLatency =
            PutAt(@, eventLatency,
                  ObserveAll(LatencyStatsAt(@, eventLatency), latencyToSendMs, 1)),
        !.recordStats = AddSent(@, n),
        !.recordStatsPerLatency =
            IF eventLatency >= 0
            THEN PutAt(@, eventLatency, AddSent(RecordStatsAt(@, eventLatency), n))
            ELSE @]

\* the global part of updateOnPackageSentSucceeded
SentGlobalRow(global, eventLatency, retryFailedTimes, durationMs, latencyToSendMs, metastatsOnly) ==
    LET acked == [global EXCEPT
                     !.packageStats.totalPkgsAcked = (@ + 1) % UIntRange,
                     !.packageStats.successPkgsAcked = (@ + 1) % UIntRange,
                     !.packageStats.totalMetastatsOnlyPkgsAcked =
                         IF metastatsOnly THEN (@ + 1) % UIntRange ELSE @,
                     !.retriesCountDistribution = MapAdd(@, retryFailedTimes, 1),
                     !.rttStats = ObserveLatency(@, durationMs)]
    IN SentRow(acked, eventLatency, latencyToSendMs, Len(latencyToSendMs))

\* the loop over recordIdsAndTenantids taking every row with operator[], which
\* creates the rows that are missing
RECURSIVE SentTenants_creating(_, _, _, _, _, _)
SentTenants_creating(tenants, ids, order, i, eventLatency, latencyToSendMs) ==
    IF i > Len(order) THEN tenants
    ELSE LET tenantToken == ids[order[i]]
             next == PutRow(tenants, tenantToken,
                            SentRow(RowOf(tenants, tenantToken), eventLatency,
                                    latencyToSendMs, 1))
         IN SentTenants_creating(next, ids, order, i + 1, eventLatency, latencyToSendMs)

\* the loop over recordIdsAndTenantids from position i on: an entry whose
\* tenant has no row is skipped
RECURSIVE SentTenants(_, _, _, _, _, _)
SentTenants(tenants, ids, order, i, eventLatency, latencyToSendMs) ==
    IF i > Len(order) THEN tenants
    ELSE LET tenantToken == ids[order[i]]
             next == IF tenantToken \notin DOMAIN tenants THEN tenants
                     ELSE [tenants EXCEPT ![tenantToken] =
                              SentRow(@, eventLatency, latencyToSendMs, 1)]
         IN SentTenants(next, ids, order, i + 1, eventLatency, latencyToSendMs)

UpdateOnPackageSentSucceeded(recordIdsAndTenantids, eventLatency, retryFailedTimes, durationMs, latencyToSendMs, metastatsOnly) ==
    /\ Call([op |-> "updateOnPackageSentSucceeded",
             recordIdsAndTenantids |-> recordIdsAndTenantids,
             eventLatency |-> eventLatency, retryFailedTimes |-> retryFailedTimes,
             durationMs |-> durationMs, latencyToSendMs |-> latencyToSendMs,
             metastatsOnly |-> metastatsOnly], metastatsOnly, TRUE)
    /\ m_telemetryStats' =
           SentGlobalRow(m_telemetryStats, eventLatency, retryFailedTimes, durationMs,
                         latencyToSendMs, metastatsOnly)
    /\ m_telemetryTenantStats' =
           SentTenants(m_telemetryTenantStats, recordIdsAndTenantids,
                       SortedKeys(DOMAIN recordIdsAndTenantids), 1,
                       eventLatency, latencyToSendMs)
    /\ records' = << >>
    /\ available' = FALSE

\* a failure counted as acknowledged but not as dropped
PackageFailed_notDropped(ps, statusCode) ==
    [ps EXCEPT
        !.totalPkgsAcked = (@ + 1) % UIntRange,
        !.dropPkgsPerHttpReturnCode = MapAdd(@, statusCode, 1)]

\* the package stats after updateOnPackageFailed
PackageFailed(ps, statusCode) ==
    [ps EXCEPT
        !.totalPkgsAcked = (@ + 1) % UIntRange,
        !.dropPkgsAcked = (@ + 1) % UIntRange,
        !.dropPkgsPerHttpReturnCode = MapAdd(@, statusCode, 1)]

UpdateOnPackageFailed(statusCode) ==
    /\ Call([op |-> "updateOnPackageFailed", statusCode |-> statusCode], FALSE, TRUE)
    /\ m_telemetryStats' =
           [m_telemetryStats EXCEPT !.packageStats = PackageFailed(@, statusCode)]
    /\ records' = << >>
    /\ available' = FALSE
    /\ UNCHANGED m_telemetryTenantStats

\* a retry that is not observed into retriesCountDistribution
PackageRetry_noDistribution(global, statusCode, retryFailedTimes) ==
    [global EXCEPT
        !.packageStats.totalPkgsAcked = (@ + 1) % UIntRange,
        !.packageStats.retryPkgsAcked = (@ + 1) % UIntRange,
        !.packageStats.retryPkgsPerHttpReturnCode = MapAdd(@, statusCode, 1)]

\* the global row after updateOnPackageRetry
PackageRetry(global, statusCode, retryFailedTimes) ==
    [global EXCEPT
        !.packageStats.totalPkgsAcked = (@ + 1) % UIntRange,
        !.packageStats.retryPkgsAcked = (@ + 1) % UIntRange,
        !.packageStats.retryPkgsPerHttpReturnCode = MapAdd(@, statusCode, 1),
        !.retriesCountDistribution = MapAdd(@, retryFailedTimes, 1)]

UpdateOnPackageRetry(statusCode, retryFailedTimes) ==
    /\ Call([op |-> "updateOnPackageRetry", statusCode |-> statusCode,
             retryFailedTimes |-> retryFailedTimes], FALSE, TRUE)
    /\ m_telemetryStats' = PackageRetry(m_telemetryStats, statusCode, retryFailedTimes)
    /\ records' = << >>
    /\ available' = FALSE
    /\ UNCHANGED m_telemetryTenantStats

\* a loop that takes the row of every known token with operator[]
FanOut_everyToken(tenants, counts, rows) ==
    [t \in DOMAIN tenants \cup DOMAIN counts \cup Tokens |->
        IF t \in DOMAIN counts THEN rows[t] ELSE RowOf(tenants, t)]

\* the tenant map after a loop that applies upd(row, count) to the row of every
\* tenant of counts, creating the rows that are missing
FanOut(tenants, counts, rows) ==
    [t \in DOMAIN tenants \cup DOMAIN counts |->
        IF t \in DOMAIN counts THEN rows[t] ELSE tenants[t]]

\* an overallCount that counts the tenants instead of their records
OverallCount_tenants(counts) == Cardinality(DOMAIN counts)

\* overallCount: the counts summed up
OverallCount(counts) == SumOver(counts, DOMAIN counts) % UIntRange

\* one tenant row of updateOnRecordsDropped
DroppedRow(row, reason, n) ==
    [row EXCEPT
        !.recordStats.droppedCountReasonDistribution = MapAdd(@, reason, n),
        !.recordStats.droppedCount = (@ + n) % UIntRange]

UpdateOnRecordsDropped(reason, droppedCount) ==
    /\ Call([op |-> "updateOnRecordsDropped", reason |-> reason,
             droppedCount |-> droppedCount], FALSE, TRUE)
    /\ m_telemetryTenantStats' =
           FanOut(m_telemetryTenantStats, droppedCount,
                  [t \in DOMAIN droppedCount |->
                      DroppedRow(RowOf(m_telemetryTenantStats, t), reason, droppedCount[t])])
    /\ m_telemetryStats' = DroppedRow(m_telemetryStats, reason, OverallCount(droppedCount))
    /\ records' = << >>
    /\ available' = FALSE

\* one row of updateOnRecordsOverFlown with = in the place of +=
OverflownRow_assigns(row, n) == [row EXCEPT !.recordStats.overflownCount = n]

\* one row of updateOnRecordsOverFlown
OverflownRow(row, n) == [row EXCEPT !.recordStats.overflownCount = (@ + n) % UIntRange]

UpdateOnRecordsOverFlown(overflownCount) ==
    /\ Call([op |-> "updateOnRecordsOverFlown", overflownCount |-> overflownCount], FALSE, TRUE)
    /\ m_telemetryTenantStats' =
           FanOut(m_telemetryTenantStats, overflownCount,
                  [t \in DOMAIN overflownCount |->
                      OverflownRow(RowOf(m_telemetryTenantStats, t), overflownCount[t])])
    /\ m_telemetryStats' = OverflownRow(m_telemetryStats, OverallCount(overflownCount))
    /\ records' = << >>
    /\ available' = FALSE

\* one tenant row of updateOnRecordsRejected
RejectedRow(row, reason, n) ==
    [row EXCEPT
        !.recordStats.rejectedCountReasonDistribution = MapAdd(@, reason, n),
        !.recordStats.rejectedCount = (@ + n) % UIntRange]

\* the global row of updateOnRecordsRejected: the reason map only
RejectedGlobalRow(global, reason, n) ==
    [global EXCEPT !.recordStats.rejectedCountReasonDistribution = MapAdd(@, reason, n)]

UpdateOnRecordsRejected(reason, rejectedCount) ==
    /\ Call([op |-> "updateOnRecordsRejected", reason |-> reason,
             rejectedCount |-> rejectedCount], FALSE, TRUE)
    /\ m_telemetryTenantStats' =
           FanOut(m_telemetryTenantStats, rejectedCount,
                  [t \in DOMAIN rejectedCount |->
                      RejectedRow(RowOf(m_telemetryTenantStats, t), reason, rejectedCount[t])])
    /\ m_telemetryStats' =
           RejectedGlobalRow(m_telemetryStats, reason, OverallCount(rejectedCount))
    /\ records' = << >>
    /\ available' = FALSE

UpdateOnStorageOpened(type) ==
    /\ Call([op |-> "updateOnStorageOpened", type |-> type], FALSE, TRUE)
    /\ m_telemetryStats' = [m_telemetryStats EXCEPT !.offlineStorageStats.storageFormat = type]
    /\ records' = << >>
    /\ available' = FALSE
    /\ UNCHANGED m_telemetryTenantStats

UpdateOnStorageFailed(reason) ==
    /\ Call([op |-> "updateOnStorageFailed", reason |-> reason], FALSE, TRUE)
    /\ m_telemetryStats' =
           [m_telemetryStats EXCEPT !.offlineStorageStats.lastFailureReason = reason]
    /\ records' = << >>
    /\ available' = FALSE
    /\ UNCHANGED m_telemetryTenantStats

-----------------------------------------------------------------------------
(* The sequential specification: calls arrive one after the other *)

Next ==
    \/ \E c \in IncomingCalls :
          UpdateOnEventIncoming(c.tenanttoken, c.size, c.latency, c.metastats)
    \/ \E postDataLength \in PostLengths, metastatsOnly \in BOOLEAN :
          UpdateOnPostData(postDataLength, metastatsOnly)
    \/ \E c \in SentCalls, retryFailedTimes \in RetryTimes, durationMs \in Durations :
          UpdateOnPackageSentSucceeded(c.pkg.ids, c.eventLatency, retryFailedTimes, durationMs,
                                       c.pkg.latencyToSendMs, c.metastatsOnly)
    \/ \E statusCode \in HttpCodes : UpdateOnPackageFailed(statusCode)
    \/ \E statusCode \in HttpCodes, retryFailedTimes \in RetryTimes :
          UpdateOnPackageRetry(statusCode, retryFailedTimes)
    \/ \E reason \in DroppedReasons, droppedCount \in CountMaps :
          UpdateOnRecordsDropped(reason, droppedCount)
    \/ \E overflownCount \in CountMaps : UpdateOnRecordsOverFlown(overflownCount)
    \/ \E reason \in RejectedReasons, rejectedCount \in CountMaps :
          UpdateOnRecordsRejected(reason, rejectedCount)
    \/ \E type \in StorageFormats : UpdateOnStorageOpened(type)
    \/ \E reason \in FailureReasons : UpdateOnStorageFailed(reason)
    \/ HasStatsDataAvailable
    \/ \E rollupKind \in RollUpKinds : GenerateStatsEvent(rollupKind)

Spec == Init /\ [][Next]_vars

-----------------------------------------------------------------------------
(* The concurrent specification: NThreads threads call updateOnPostData at   *)
(* the same time. No function of MetaStats.cpp acquires rejected_callback_mtx *)
(* or any other lock, so each += and ++ is a load and a store that the other  *)
(* threads' loads and stores may come between.                                *)

\* the thread enters updateOnPostData(postDataLength, metastatsOnly)
BeginPostData(t, postDataLength, metastatsOnly) ==
    /\ pc[t].at = "idle"
    /\ pc' = [pc EXCEPT ![t] = [at |-> "load_bandwidth", len |-> postDataLength,
                                metastatsOnly |-> metastatsOnly]]
    /\ started' = started + 1
    /\ UNCHANGED << engine, now, lastOp, records, available, onlyMetaStats, mutations, tmp,
                    dist, others >>

\* a load of the counter that field names
LoadCounter(t, at, field, next) ==
    /\ pc[t].at = at
    /\ tmp' = [tmp EXCEPT ![t] = m_telemetryStats.packageStats[field]]
    /\ pc' = [pc EXCEPT ![t].at = next]
    /\ UNCHANGED << engine, now, lastOp, records, available, onlyMetaStats, mutations, started,
                    dist, others >>

\* the store of the loaded value plus add
StoreCounter(t, at, field, add, next) ==
    /\ pc[t].at = at
    /\ m_telemetryStats' =
           [m_telemetryStats EXCEPT !.packageStats[field] = (tmp[t] + add) % UIntRange]
    /\ pc' = [pc EXCEPT ![t].at = next]
    /\ UNCHANGED << m_sessionId, m_telemetryTenantStats, now, lastOp, records, available,
                    onlyMetaStats, mutations, tmp, started, dist, others >>

\* totalBandwidthConsumedInBytes += postDataLength
LoadBandwidth(t) ==
    LoadCounter(t, "load_bandwidth", "totalBandwidthConsumedInBytes", "store_bandwidth")
StoreBandwidth(t) ==
    StoreCounter(t, "store_bandwidth", "totalBandwidthConsumedInBytes", pc[t].len, "load_posted")

\* totalPkgsToBeAcked++
LoadPosted(t) == LoadCounter(t, "load_posted", "totalPkgsToBeAcked", "store_posted")
StorePosted(t) ==
    StoreCounter(t, "store_posted", "totalPkgsToBeAcked", 1,
                 IF pc[t].metastatsOnly THEN "load_metastats" ELSE "done")

\* if (metastatsOnly) totalMetastatsOnlyPkgsToBeAcked++
LoadMetastatsOnly(t) ==
    LoadCounter(t, "load_metastats", "totalMetastatsOnlyPkgsToBeAcked", "store_metastats")
StoreMetastatsOnly(t) ==
    StoreCounter(t, "store_metastats", "totalMetastatsOnlyPkgsToBeAcked", 1, "done")

ConcNext ==
    \/ \E t \in 1..NThreads, postDataLength \in PostLengths, metastatsOnly \in BOOLEAN :
          BeginPostData(t, postDataLength, metastatsOnly)
    \/ \E t \in 1..NThreads : LoadBandwidth(t)
    \/ \E t \in 1..NThreads : StoreBandwidth(t)
    \/ \E t \in 1..NThreads : LoadPosted(t)
    \/ \E t \in 1..NThreads : StorePosted(t)
    \/ \E t \in 1..NThreads : LoadMetastatsOnly(t)
    \/ \E t \in 1..NThreads : StoreMetastatsOnly(t)

SpecConc == Init /\ [][ConcNext]_vars

-----------------------------------------------------------------------------
(* The distribution helpers on their own: a map is initialised with any of the *)
(* arguments, values are observed into it, its values are cleared.             *)

InitDistributionKeys(firstValue, increment, totalSpot, factor) ==
    /\ dist' = initDistributionKeys(firstValue, increment, totalSpot, factor)
    /\ lastOp' = [op |-> "initDistributionKeys", firstValue |-> firstValue,
                  increment |-> increment, totalSpot |-> totalSpot, factor |-> factor]
    /\ records' = << >>
    /\ UNCHANGED << engine, now, available, onlyMetaStats, mutations, threads, others >>

UpdateMap(value) ==
    /\ MapSum(dist) < MaxObserve
    /\ dist' = updateMap(dist, value)
    /\ lastOp' = [op |-> "updateMap", value |-> value]
    /\ records' = << >>
    /\ UNCHANGED << engine, now, available, onlyMetaStats, mutations, threads, others >>

ClearMapValues ==
    /\ dist' = clearMapValues(dist)
    /\ lastOp' = [op |-> "clearMapValues", before |-> dist]
    /\ records' = << >>
    /\ UNCHANGED << engine, now, available, onlyMetaStats, mutations, threads, others >>

\* addAggregatedMapToRecordFields on a record without fields
AddAggregatedMapToRecordFields(distributionName, range) ==
    /\ records' = << [ext |-> ApplyWrites(
                                 addAggregatedMapToRecordFields(distributionName, dist, range))] >>
    /\ lastOp' = [op |-> "addAggregatedMapToRecordFields",
                  distributionName |-> distributionName, distribution |-> dist,
                  range |-> range]
    /\ UNCHANGED << engine, now, dist, available, onlyMetaStats, mutations, threads,
                    others >>

DistNext ==
    \/ \E firstValue \in FirstValues, increment \in Increments, totalSpot \in TotalSpots,
          factor \in BOOLEAN :
          InitDistributionKeys(firstValue, increment, totalSpot, factor)
    \/ \E value \in ObservedValues : UpdateMap(value)
    \/ ClearMapValues
    \/ \E range \in BOOLEAN : AddAggregatedMapToRecordFields("distribution", range)

SpecDist == Init /\ [][DistNext]_vars

-----------------------------------------------------------------------------
(* DataViewerCollection (api/DataViewerCollection.hpp), as its unit tests   *)
(* drive it: a vector of viewers, each with the name GetName() returns.     *)

\* the null pointer as a viewer name, and the null shared_ptr, which has no
\* viewer and so no name
nullptr == "nullptr"
NullViewer == [ id |-> 0, name |-> nullptr ]

\* two viewer objects for every name, so that a second viewer may carry the
\* name of a registered one
ViewerNames == { "sharedName1", "sharedName2", "sharedName3" }
DataViewers == [ id : 1..2, name : ViewerNames ]

\* IsViewerInCollection(viewerName): some viewer of the vector has the name
IsViewerInCollection(collection, viewerName) ==
    \E i \in DOMAIN collection : collection[i].name = viewerName

\* a RegisterViewer that refuses the null viewer only
RegisterViewerThrows_nullOnly(collection, dataViewer) == dataViewer = NullViewer

\* RegisterViewer throws invalid_argument for the null viewer and for a name
\* that is in the collection
RegisterViewerThrows(collection, dataViewer) ==
    \/ dataViewer = NullViewer
    \/ IsViewerInCollection(collection, dataViewer.name)

\* UnregisterViewer throws invalid_argument for the null name and for a name
\* that is not in the collection
UnregisterViewerThrows(collection, viewerName) ==
    \/ viewerName = nullptr
    \/ ~IsViewerInCollection(collection, viewerName)

\* pop_back in the place of the erase: the vector without its last viewer
EraseViewer_last(collection, viewerName) == SubSeq(collection, 1, Len(collection) - 1)

\* the vector without its first viewer of that name
EraseViewer(collection, viewerName) ==
    LET at == CHOOSE i \in DOMAIN collection :
                  /\ collection[i].name = viewerName
                  /\ \A j \in 1..(i - 1) : collection[j].name # viewerName
    IN SubSeq(collection, 1, at - 1) \o SubSeq(collection, at + 1, Len(collection))

\* what a call of the collection leaves unchanged besides the collection
ViewerCall(op) ==
    /\ lastOp' = op
    /\ UNCHANGED << engine, now, records, available, onlyMetaStats, mutations, threads,
                    dist, rollup, issued, reported >>

RegisterViewer(dataViewer) ==
    LET throws == RegisterViewerThrows(m_dataViewerCollection, dataViewer)
    IN /\ ViewerCall([op |-> "RegisterViewer", dataViewer |-> dataViewer,
                      thrown |-> IF throws THEN "invalid_argument" ELSE "nothing"])
       /\ m_dataViewerCollection' = IF throws THEN m_dataViewerCollection
                                    ELSE Append(m_dataViewerCollection, dataViewer)

UnregisterViewer(viewerName) ==
    LET throws == UnregisterViewerThrows(m_dataViewerCollection, viewerName)
    IN /\ ViewerCall([op |-> "UnregisterViewer", viewerName |-> viewerName,
                      thrown |-> IF throws THEN "invalid_argument" ELSE "nothing"])
       /\ m_dataViewerCollection' = IF throws THEN m_dataViewerCollection
                                    ELSE EraseViewer(m_dataViewerCollection, viewerName)

UnregisterAllViewers ==
    /\ ViewerCall([op |-> "UnregisterAllViewers", thrown |-> "nothing"])
    /\ m_dataViewerCollection' = << >>

\* IsViewerEnabled(viewerName): throws for the null name
IsViewerEnabled(viewerName) ==
    /\ ViewerCall(IF viewerName = nullptr
                  THEN [op |-> "IsViewerEnabled", viewerName |-> viewerName,
                        thrown |-> "invalid_argument", result |-> FALSE]
                  ELSE [op |-> "IsViewerEnabled", viewerName |-> viewerName,
                        thrown |-> "nothing",
                        result |-> IsViewerInCollection(m_dataViewerCollection, viewerName)])
    /\ UNCHANGED m_dataViewerCollection

\* IsViewerEnabled(): some viewer is registered
IsAnyViewerEnabled ==
    /\ ViewerCall([op |-> "IsViewerEnabled()", thrown |-> "nothing",
                   result |-> m_dataViewerCollection # << >>])
    /\ UNCHANGED m_dataViewerCollection

ViewersNext ==
    \/ \E dataViewer \in DataViewers \cup {NullViewer} : RegisterViewer(dataViewer)
    \/ \E viewerName \in ViewerNames \cup {nullptr} : UnregisterViewer(viewerName)
    \/ UnregisterAllViewers
    \/ \E viewerName \in ViewerNames \cup {nullptr} : IsViewerEnabled(viewerName)
    \/ IsAnyViewerEnabled

SpecViewers == Init /\ [][ViewersNext]_vars

-----------------------------------------------------------------------------
(* generateStatsEvent on one thread while another thread calls               *)
(* updateOnEventIncoming. No method takes a lock, so the mutator may run     *)
(* between snapStatsToRecord and resetStats and between resetStats and       *)
(* clearStats; each of these calls is taken as one step.                     *)

\* the number that decimal digits stand for
RECURSIVE toNumber(_)
toNumber(text) ==
    IF text = << >> THEN 0
    ELSE 10 * toNumber(SubSeq(text, 1, Len(text) - 1))
         + (CHOOSE d \in 0..9 : Digits[d + 1] = text[Len(text)])

\* the number a record carries under the literal key, 0 without the key
ReportedCount(record, key) ==
    IF Key(key) \in DOMAIN record.ext THEN toNumber(record.ext[Key(key)]) ELSE 0

\* what the steps of the two threads leave unchanged
RollupFrame ==
    UNCHANGED << m_sessionId, available, onlyMetaStats, mutations, threads, dist,
                 m_dataViewerCollection >>

\* generateStatsEvent up to and including snapStatsToRecord
RollupSnapshot(rollupKind) ==
    LET time == now + 1
        snap == ShouldSnapshot(rollupKind, m_telemetryTenantStats, m_telemetryStats)
        order == TokenOrder(m_telemetryTenantStats)
        snapped == snapStatsToRecord(rollupKind, m_telemetryTenantStats, m_telemetryStats,
                                     m_sessionId, time)
    IN /\ rollup.at = "idle"
       /\ now <= MaxRollups
       /\ now' = time
       /\ lastOp' = [op |-> "generateStatsEvent", rollupKind |-> rollupKind]
       /\ records' = IF snap THEN snapped ELSE << >>
       /\ m_telemetryTenantStats' =
              IF snap
              THEN [t \in DOMAIN m_telemetryTenantStats |->
                       SnapTouch(m_telemetryTenantStats[t])]
              ELSE m_telemetryTenantStats
       /\ m_telemetryStats' = IF snap /\ SnapsGlobal(rollupKind)
                              THEN SnapTouch(GlobalForSnap(m_telemetryStats))
                              ELSE m_telemetryStats
       /\ reported' =
              [t \in Tokens |->
                  IF snap /\ t \in DOMAIN m_telemetryTenantStats
                  THEN reported[t]
                       + ReportedCount(snapped[CHOOSE i \in 1..Len(order) : order[i] = t],
                                       "rcv")
                  ELSE reported[t]]
       /\ rollup' = [at |-> IF snap THEN "reset"
                            ELSE IF rollupKind = ACT_STATS_ROLLUP_KIND_STOP THEN "clear"
                            ELSE "idle",
                     rollupKind |-> rollupKind]
       /\ UNCHANGED issued
       /\ RollupFrame

\* resetStats(false) of the rollup in progress
RollupReset ==
    /\ rollup.at = "reset"
    /\ m_telemetryTenantStats' =
           resetStats(m_telemetryTenantStats, ResetStartArg(rollup.rollupKind), m_sessionId, now)
    /\ rollup' = [rollup EXCEPT !.at = IF rollup.rollupKind = ACT_STATS_ROLLUP_KIND_STOP
                                       THEN "clear" ELSE "idle"]
    /\ UNCHANGED << m_telemetryStats, now, lastOp, records, issued, reported >>
    /\ RollupFrame

\* clearStats() of a Stop in progress
RollupClear ==
    /\ rollup.at = "clear"
    /\ m_telemetryTenantStats' = clearTenantStats(m_telemetryTenantStats)
    /\ m_telemetryStats' = privateClearStats(m_telemetryStats)
    /\ rollup' = [rollup EXCEPT !.at = "idle"]
    /\ UNCHANGED << now, lastOp, records, issued, reported >>
    /\ RollupFrame

\* updateOnEventIncoming(tenanttoken, size, latency, false) on the other thread
ConcurrentIncoming(tenanttoken, size, latency) ==
    /\ issued[TenantTokens[1]] + issued[TenantTokens[2]] < MaxIssued
    /\ m_telemetryTenantStats' =
           PutRow(m_telemetryTenantStats, tenanttoken,
                  IncomingTenantRow(RowOf(m_telemetryTenantStats, tenanttoken),
                                    tenanttoken, size, latency))
    /\ m_telemetryStats' = IncomingGlobalRow(m_telemetryStats, size, latency, FALSE)
    /\ issued' = [issued EXCEPT ![tenanttoken] = @ + 1]
    /\ UNCHANGED << now, lastOp, records, rollup, reported >>
    /\ RollupFrame

RollupNext ==
    \/ \E rollupKind \in RollUpKinds : RollupSnapshot(rollupKind)
    \/ RollupReset
    \/ RollupClear
    \/ \E tenanttoken \in Tokens, size \in Sizes, latency \in Latencies :
          ConcurrentIncoming(tenanttoken, size, latency)

SpecRollup == Init /\ [][RollupNext]_vars

-----------------------------------------------------------------------------
(* Vocabulary of the properties *)

IsRollup(op, rollupKind) == op.op = "generateStatsEvent" /\ op.rollupKind = rollupKind

AfterRollup(rollupKind) == IsRollup(lastOp, rollupKind)

AllZero(m) == \A k \in DOMAIN m : m[k] = 0

\* every scalar counter of a RecordStats is 0
RecordCountersZero(rs) ==
    /\ rs.bannedCount = 0 /\ rs.receivedCount = 0 /\ rs.receivedMetastatsCount = 0
    /\ rs.sentCount = 0 /\ rs.sentCountFromCurrentSession = 0
    /\ rs.sentCountFromPreviousSession = 0
    /\ rs.droppedCount = 0 /\ rs.overflownCount = 0 /\ rs.rejectedCount = 0
    /\ rs.totalRecordsSizeInBytes = 0 /\ rs.maxOfRecordSizeInBytes = 0

\* every counter and every histogram value of a row is 0
RowIsZero(ts) ==
    /\ RecordCountersZero(ts.recordStats)
    /\ \A l \in DOMAIN ts.recordStatsPerLatency : RecordCountersZero(ts.recordStatsPerLatency[l])
    /\ ts.packageStats.totalPkgsToBeAcked = 0 /\ ts.packageStats.totalPkgsAcked = 0
    /\ ts.packageStats.successPkgsAcked = 0 /\ ts.packageStats.retryPkgsAcked = 0
    /\ ts.packageStats.dropPkgsAcked = 0
    /\ ts.packageStats.totalBandwidthConsumedInBytes = 0
    /\ AllZero(ts.packageStats.dropPkgsPerHttpReturnCode)
    /\ AllZero(ts.packageStats.retryPkgsPerHttpReturnCode)
    /\ AllZero(ts.retriesCountDistribution)
    /\ AllZero(ts.rttStats.latencyDistribution)
    /\ ts.rttStats.maxOfLatencyInMilliSecs = 0
    /\ \A l \in DOMAIN ts.logToSuccessfulSendLatencyPerLatency :
          AllZero(ts.logToSuccessfulSendLatencyPerLatency[l].latencyDistribution)
    /\ AllZero(ts.recordStats.sizeInKBytesDistribution)
    /\ AllZero(ts.recordStats.droppedCountReasonDistribution)
    /\ AllZero(ts.recordStats.rejectedCountReasonDistribution)
    /\ AllZero(ts.recordStats.droppedCountPerHttpReturnCode)
    /\ AllZero(ts.offlineStorageStats.saveSizeInKBytesDistribution)
    /\ AllZero(ts.offlineStorageStats.overwrittenSizeInKBytesDistribution)

\* every map and histogram of a row has no key
RowMapsEmpty(ts) ==
    /\ DOMAIN ts.packageStats.dropPkgsPerHttpReturnCode = {}
    /\ DOMAIN ts.packageStats.retryPkgsPerHttpReturnCode = {}
    /\ DOMAIN ts.recordStats.droppedCountReasonDistribution = {}
    /\ DOMAIN ts.recordStats.rejectedCountReasonDistribution = {}
    /\ DOMAIN ts.recordStats.droppedCountPerHttpReturnCode = {}
    /\ DOMAIN ts.recordStats.semanticToRecordCountMap = {}
    /\ DOMAIN ts.recordStats.semanticToExceptionCountMap = {}
    /\ DOMAIN ts.retriesCountDistribution = {}
    /\ DOMAIN ts.rttStats.latencyDistribution = {}
    /\ DOMAIN ts.recordStats.sizeInKBytesDistribution = {}
    /\ DOMAIN ts.offlineStorageStats.saveSizeInKBytesDistribution = {}
    /\ DOMAIN ts.offlineStorageStats.overwrittenSizeInKBytesDistribution = {}
    /\ DOMAIN ts.logToSuccessfulSendLatencyPerLatency = {}

\* the right-hand side of the specification's definition of has_stats_data_available
SomeNonMetastatsActivity(tenants, global) ==
    \/ \E t \in DOMAIN tenants :
          \/ tenants[t].recordStats.rejectedCount # 0
          \/ tenants[t].recordStats.bannedCount # 0
          \/ tenants[t].recordStats.droppedCount # 0
          \/ tenants[t].recordStats.receivedCount
               - tenants[t].recordStats.receivedMetastatsCount # 0
    \/ global.packageStats.totalPkgsToBeAcked
         > global.packageStats.totalMetastatsOnlyPkgsToBeAcked
    \/ global.packageStats.totalPkgsAcked > global.packageStats.totalMetastatsOnlyPkgsAcked

-----------------------------------------------------------------------------
(* Properties *)

\* C1: after generate_stats_event(Start) returns, every tenant row of the
\* tenant map has all counters and histogram values zero and statsSequenceNum 0.
C1_StartZeroesRows ==
    AfterRollup(ACT_STATS_ROLLUP_KIND_START) =>
        \A t \in DOMAIN m_telemetryTenantStats :
            /\ RowIsZero(m_telemetryTenantStats[t])
            /\ m_telemetryTenantStats[t].statsSequenceNum = 0

\* C2: after generate_stats_event(Stop) returns, the tenant map is empty and
\* every map and histogram inside the global row is empty.
C2_StopEmptiesMaps ==
    AfterRollup(ACT_STATS_ROLLUP_KIND_STOP) =>
        /\ DOMAIN m_telemetryTenantStats = {}
        /\ RowMapsEmpty(m_telemetryStats)

\* C3: has_stats_data_available() is false right after construction and right
\* after every generate_stats_event(Stop).
C3_NothingAvailableAfterStop ==
    (lastOp.op = "MetaStats" \/ AfterRollup(ACT_STATS_ROLLUP_KIND_STOP)) =>
        ~hasStatsDataAvailable(m_telemetryTenantStats, m_telemetryStats)

\* C4: when has_stats_data_available() is false, generate_stats_event(Ongoing)
\* returns an empty list and changes nothing of the engine: no tenant row, not
\* the global row, not the session id.
C4_GatedOngoingChangesNothing ==
    [][ ( /\ IsRollup(lastOp', ACT_STATS_ROLLUP_KIND_ONGOING)
          /\ ~hasStatsDataAvailable(m_telemetryTenantStats, m_telemetryStats) )
        => ( /\ records' = << >>
             /\ m_telemetryTenantStats' = m_telemetryTenantStats
             /\ m_telemetryStats' = m_telemetryStats
             /\ m_sessionId' = m_sessionId ) ]_vars

\* a gated Ongoing rollup has run on an engine that holds a tenant row
C4_Witness ==
    /\ AfterRollup(ACT_STATS_ROLLUP_KIND_ONGOING)
    /\ ~hasStatsDataAvailable(m_telemetryTenantStats, m_telemetryStats)
    /\ records = << >>
    /\ DOMAIN m_telemetryTenantStats # {}

\* C5: in every state has_stats_data_available() is true exactly when some
\* tenant row has non-zero rejected, banned, dropped or received minus
\* receivedMetaStats, or the global package stats have posted > metastatsOnlyPosted
\* or acked > metastatsOnlyAcked; a call returns that value.
C5_AvailableIffActivity ==
    /\ hasStatsDataAvailable(m_telemetryTenantStats, m_telemetryStats)
         <=> SomeNonMetastatsActivity(m_telemetryTenantStats, m_telemetryStats)
    /\ lastOp.op = "hasStatsDataAvailable" =>
         (available <=> SomeNonMetastatsActivity(m_telemetryTenantStats, m_telemetryStats))

\* a call has returned true on account of acknowledged packages alone
C5_Witness ==
    /\ lastOp.op = "hasStatsDataAvailable"
    /\ available
    /\ m_telemetryStats.packageStats.totalPkgsAcked
         > m_telemetryStats.packageStats.totalMetastatsOnlyPkgsAcked
    /\ m_telemetryStats.packageStats.totalPkgsToBeAcked = 0
    /\ DOMAIN m_telemetryTenantStats = {}

\* C6: while every mutator call since construction was metastats traffic
\* (on_event_incoming with is_metastats, on_post_data and
\* on_package_sent_succeeded with metastats_only), has_stats_data_available()
\* is false and generate_stats_event(Ongoing) returns an empty list.
C6_SelfExclusion ==
    onlyMetaStats =>
        /\ ~hasStatsDataAvailable(m_telemetryTenantStats, m_telemetryStats)
        /\ lastOp.op = "hasStatsDataAvailable" => ~available
        /\ AfterRollup(ACT_STATS_ROLLUP_KIND_ONGOING) => records = << >>

\* an Ongoing rollup has returned nothing after a metastats-only post and a
\* metastats-only acknowledgement
C6_Witness ==
    /\ onlyMetaStats
    /\ AfterRollup(ACT_STATS_ROLLUP_KIND_ONGOING)
    /\ records = << >>
    /\ m_telemetryStats.packageStats.totalMetastatsOnlyPkgsToBeAcked > 0
    /\ m_telemetryStats.packageStats.totalMetastatsOnlyPkgsAcked > 0

\* C7 as claimed: generate_stats_event returns one record per tenant row plus
\* one global record for Start and Stop, one record per tenant row for an
\* Ongoing with data available, and an empty list only for an Ongoing with no
\* data available.
C7_EmptyOnlyWithoutData ==
    [][ lastOp'.op = "generateStatsEvent" =>
          LET kind == lastOp'.rollupKind
              has == hasStatsDataAvailable(m_telemetryTenantStats, m_telemetryStats)
              rows == Cardinality(DOMAIN m_telemetryTenantStats)
          IN /\ kind # ACT_STATS_ROLLUP_KIND_ONGOING => Len(records') = rows + 1
             /\ (kind = ACT_STATS_ROLLUP_KIND_ONGOING /\ has) => Len(records') = rows
             /\ records' = << >> => (kind = ACT_STATS_ROLLUP_KIND_ONGOING /\ ~has) ]_vars

\* C7, amended: one record per tenant row plus one global record for Start and
\* Stop, one record per tenant row for an Ongoing with data available, and an
\* empty list exactly for an Ongoing with no data available or no tenant row.
C7_RecordCount ==
    [][ lastOp'.op = "generateStatsEvent" =>
          LET kind == lastOp'.rollupKind
              has == hasStatsDataAvailable(m_telemetryTenantStats, m_telemetryStats)
              rows == Cardinality(DOMAIN m_telemetryTenantStats)
          IN /\ kind # ACT_STATS_ROLLUP_KIND_ONGOING => Len(records') = rows + 1
             /\ (kind = ACT_STATS_ROLLUP_KIND_ONGOING /\ has) => Len(records') = rows
             /\ records' = << >> <=>
                  (kind = ACT_STATS_ROLLUP_KIND_ONGOING /\ (~has \/ rows = 0)) ]_vars

\* an Ongoing rollup has returned nothing although packages that are not
\* metastats-only were posted: the engine holds no tenant row
C7_Witness ==
    /\ AfterRollup(ACT_STATS_ROLLUP_KIND_ONGOING)
    /\ records = << >>
    /\ DOMAIN m_telemetryTenantStats = {}
    /\ m_telemetryStats.packageStats.totalPkgsToBeAcked
         > m_telemetryStats.packageStats.totalMetastatsOnlyPkgsToBeAcked

\* C8: statsSequenceNum of a row increments only on Ongoing rollups: no
\* Start, no Stop and no mutator raises it.
C8_OnlyOngoingIncrements ==
    [][ ~IsRollup(lastOp', ACT_STATS_ROLLUP_KIND_ONGOING) =>
          \A t \in DOMAIN m_telemetryTenantStats \cap DOMAIN m_telemetryTenantStats' :
              m_telemetryTenantStats'[t].statsSequenceNum
                <= m_telemetryTenantStats[t].statsSequenceNum ]_vars

\* C9: the session id of the engine never changes; a rollup that resets leaves
\* every tenant row with that session id, and every record it returns carries
\* it as act_stats_id.
C9_SessionIdEverywhere ==
    [][ /\ m_sessionId' = m_sessionId
        /\ ( /\ lastOp'.op = "generateStatsEvent"
             /\ ShouldSnapshot(lastOp'.rollupKind, m_telemetryTenantStats, m_telemetryStats) )
           => ( /\ \A t \in DOMAIN m_telemetryTenantStats' :
                      m_telemetryTenantStats'[t].sessionId = m_sessionId
                /\ \A i \in DOMAIN records' :
                      records'[i].ext[Key("act_stats_id")] = m_sessionId ) ]_vars

\* a Start rollup has returned the records of a tenant row and of the global
\* row, and the row, created by a mutator, now holds the engine's session id
C9_Witness ==
    /\ AfterRollup(ACT_STATS_ROLLUP_KIND_START)
    /\ Len(records) >= 2
    /\ \E t \in DOMAIN m_telemetryTenantStats :
          /\ m_telemetryTenantStats[t].sessionId = m_sessionId
          /\ m_telemetryTenantStats[t].statsSequenceNum = 1
    /\ \A i \in DOMAIN records : records[i].ext[Key("act_stats_id")] = m_sessionId

\* C10: concurrent calls never interleave their reads and writes, so when
\* NThreads concurrent on_post_data calls have returned, posted has grown by
\* exactly NThreads.
C10_NoLostUpdate ==
    (\A t \in 1..NThreads : pc[t].at = "done") =>
        m_telemetryStats.packageStats.totalPkgsToBeAcked = NThreads

\* an unsigned counter that grew by n
Grew(new, old, n) == new = (old + n) % UIntRange

\* the step is the call op of the sequential specification
IsCall(op) == lastOp'.op = op

\* the step is a rollup that snapshots
IsSnapshot ==
    /\ IsCall("generateStatsEvent")
    /\ ShouldSnapshot(lastOp'.rollupKind, m_telemetryTenantStats, m_telemetryStats)

\* the record holds the text under the key k
Holds(record, k, text) == k \in DOMAIN record.ext /\ record.ext[k] = text

\* the record holds the decimal text of value under the literal key
Reports(record, key, value) == Holds(record, Key(key), toString(value))

\* C11: a non-metastats on_event_incoming(token, size, class, false) raises
\* received by 1 and the total bytes by size in the tenant row of token and in
\* the global row, and for a class >= 0 in the per-class stats of both rows; the
\* record a snapshot makes of a tenant row that received n events of S bytes
\* holds rcv = n and rcds_received_size_bytes = S.
C11_IncomingCounts ==
    [][ /\ (IsCall("updateOnEventIncoming") /\ ~lastOp'.metastats) =>
             LET token == lastOp'.tenanttoken
                 size == lastOp'.size
                 latency == lastOp'.latency
                 oldRow == RowOf(m_telemetryTenantStats, token)
                 newRow == m_telemetryTenantStats'[token]
                 oldGlobal == m_telemetryStats
                 newGlobal == m_telemetryStats'
                 PerClass(new, old) ==
                     /\ latency \in DOMAIN new.recordStatsPerLatency
                     /\ Grew(new.recordStatsPerLatency[latency].receivedCount,
                             RecordStatsAt(old.recordStatsPerLatency, latency).receivedCount, 1)
                     /\ Grew(new.recordStatsPerLatency[latency].totalRecordsSizeInBytes,
                             RecordStatsAt(old.recordStatsPerLatency, latency)
                                 .totalRecordsSizeInBytes, size)
             IN /\ token \in DOMAIN m_telemetryTenantStats'
                /\ Grew(newRow.recordStats.receivedCount, oldRow.recordStats.receivedCount, 1)
                /\ Grew(newRow.recordStats.totalRecordsSizeInBytes,
                        oldRow.recordStats.totalRecordsSizeInBytes, size)
                /\ Grew(newGlobal.recordStats.receivedCount,
                        oldGlobal.recordStats.receivedCount, 1)
                /\ Grew(newGlobal.recordStats.totalRecordsSizeInBytes,
                        oldGlobal.recordStats.totalRecordsSizeInBytes, size)
                /\ latency >= 0 => (PerClass(newRow, oldRow) /\ PerClass(newGlobal, oldGlobal))
        /\ IsSnapshot =>
             LET order == TokenOrder(m_telemetryTenantStats)
             IN \A i \in 1..Len(order) :
                   LET rs == m_telemetryTenantStats[order[i]].recordStats
                   IN rs.receivedCount > 0 =>
                        /\ Reports(records'[i], "rcv", rs.receivedCount)
                        /\ Reports(records'[i], "rcds_received_size_bytes",
                                   rs.totalRecordsSizeInBytes) ]_vars

\* an Ongoing rollup has returned the record of a tenant that received two
\* events, of 500 and of 2048 bytes
C11_Witness ==
    /\ AfterRollup(ACT_STATS_ROLLUP_KIND_ONGOING)
    /\ \E i \in DOMAIN records :
          /\ Reports(records[i], "rcv", 2)
          /\ Reports(records[i], "rcds_received_size_bytes", 2548)

\* C12: on_event_incoming with is_metastats creates no tenant row and changes
\* no tenant row; it raises received and receivedMetaStats of the global row by
\* 1 each, so that their difference stays.
C12_MetastatsIncomingGlobalOnly ==
    [][ (IsCall("updateOnEventIncoming") /\ lastOp'.metastats) =>
          LET old == m_telemetryStats.recordStats
              new == m_telemetryStats'.recordStats
          IN /\ m_telemetryTenantStats' = m_telemetryTenantStats
             /\ Grew(new.receivedCount, old.receivedCount, 1)
             /\ Grew(new.receivedMetastatsCount, old.receivedMetastatsCount, 1)
             /\ new.receivedCount - new.receivedMetastatsCount
                  = old.receivedCount - old.receivedMetastatsCount ]_vars

\* a metastats event has come in on an engine that holds the row of a tenant
C12_Witness ==
    /\ lastOp.op = "updateOnEventIncoming"
    /\ lastOp.metastats
    /\ DOMAIN m_telemetryTenantStats # {}
    /\ m_telemetryStats.recordStats.receivedCount = 2
    /\ m_telemetryStats.recordStats.receivedMetastatsCount = 1

\* C13: on_records_dropped(reason, counts) adds counts[t] to the dropped counter
\* and to droppedReason[reason] of the row of every tenant t of counts, creating
\* the row when absent, and the sum of the counts to the same two of the global
\* row; on_records_overflown does so with the overflown counters.
C13_DroppedFanOut ==
    [][ /\ IsCall("updateOnRecordsDropped") =>
             LET counts == lastOp'.droppedCount
                 reason == lastOp'.reason
                 Added(new, old, n) ==
                     /\ Grew(new.recordStats.droppedCount, old.recordStats.droppedCount, n)
                     /\ reason \in DOMAIN new.recordStats.droppedCountReasonDistribution
                     /\ Grew(new.recordStats.droppedCountReasonDistribution[reason],
                             MapGet(old.recordStats.droppedCountReasonDistribution, reason), n)
             IN /\ \A t \in DOMAIN counts :
                      /\ t \in DOMAIN m_telemetryTenantStats'
                      /\ Added(m_telemetryTenantStats'[t],
                               RowOf(m_telemetryTenantStats, t), counts[t])
                /\ Added(m_telemetryStats', m_telemetryStats, MapSum(counts))
        /\ IsCall("updateOnRecordsOverFlown") =>
             LET counts == lastOp'.overflownCount
                 Added(new, old, n) ==
                     Grew(new.recordStats.overflownCount, old.recordStats.overflownCount, n)
             IN /\ \A t \in DOMAIN counts :
                      /\ t \in DOMAIN m_telemetryTenantStats'
                      /\ Added(m_telemetryTenantStats'[t],
                               RowOf(m_telemetryTenantStats, t), counts[t])
                /\ Added(m_telemetryStats', m_telemetryStats, MapSum(counts)) ]_vars

\* 3 and 1 records of two tenants were dropped for RETRY_EXCEEDED and then 3
\* and 1 records overflown: the global row counts 4 of each
C13_Witness ==
    /\ lastOp.op = "updateOnRecordsOverFlown"
    /\ m_telemetryStats.recordStats.overflownCount = 4
    /\ m_telemetryStats.recordStats.droppedCount = 4
    /\ MapGet(m_telemetryStats.recordStats.droppedCountReasonDistribution,
              DROPPED_REASON_RETRY_EXCEEDED) = 4
    /\ DOMAIN m_telemetryTenantStats = Tokens
    /\ m_telemetryTenantStats[TenantTokens[1]].recordStats.droppedCount = 3
    /\ m_telemetryTenantStats[TenantTokens[2]].recordStats.droppedCount = 1
    /\ m_telemetryTenantStats[TenantTokens[1]].recordStats.overflownCount = 3
    /\ m_telemetryTenantStats[TenantTokens[2]].recordStats.overflownCount = 1

\* C14: on_records_rejected(reason, counts) adds counts[t] to the rejected
\* counter of the row of every tenant t of counts and the sum of the counts to
\* the rejected counter of the global row.
C14_RejectedFanOut ==
    [][ IsCall("updateOnRecordsRejected") =>
          LET counts == lastOp'.rejectedCount
          IN /\ \A t \in DOMAIN counts :
                   /\ t \in DOMAIN m_telemetryTenantStats'
                   /\ Grew(m_telemetryTenantStats'[t].recordStats.rejectedCount,
                           RowOf(m_telemetryTenantStats, t).recordStats.rejectedCount,
                           counts[t])
             /\ Grew(m_telemetryStats'.recordStats.rejectedCount,
                     m_telemetryStats.recordStats.rejectedCount, MapSum(counts)) ]_vars

\* C15: on_package_retry(code, n) raises acked, ackedRetry,
\* retryPkgsPerHttpReturnCode[code] and retriesCountDistribution[n] of the
\* global row by 1; on_package_failed(code) raises acked, ackedDropped and
\* dropPkgsPerHttpReturnCode[code] by 1; the record a snapshot makes of the
\* global row after k retries with the same (code, n) holds the distribution
\* n:k and rqs_acked_ret_on_HTTP_<code> = k.
C15_RetryAndFailedCounts ==
    [][ /\ IsCall("updateOnPackageRetry") =>
             LET old == m_telemetryStats
                 new == m_telemetryStats'
                 code == lastOp'.statusCode
                 n == lastOp'.retryFailedTimes
             IN /\ Grew(new.packageStats.totalPkgsAcked, old.packageStats.totalPkgsAcked, 1)
                /\ Grew(new.packageStats.retryPkgsAcked, old.packageStats.retryPkgsAcked, 1)
                /\ code \in DOMAIN new.packageStats.retryPkgsPerHttpReturnCode
                /\ Grew(new.packageStats.retryPkgsPerHttpReturnCode[code],
                        MapGet(old.packageStats.retryPkgsPerHttpReturnCode, code), 1)
                /\ n \in DOMAIN new.retriesCountDistribution
                /\ Grew(new.retriesCountDistribution[n],
                        MapGet(old.retriesCountDistribution, n), 1)
        /\ IsCall("updateOnPackageFailed") =>
             LET old == m_telemetryStats.packageStats
                 new == m_telemetryStats'.packageStats
                 code == lastOp'.statusCode
             IN /\ Grew(new.totalPkgsAcked, old.totalPkgsAcked, 1)
                /\ Grew(new.dropPkgsAcked, old.dropPkgsAcked, 1)
                /\ code \in DOMAIN new.dropPkgsPerHttpReturnCode
                /\ Grew(new.dropPkgsPerHttpReturnCode[code],
                        MapGet(old.dropPkgsPerHttpReturnCode, code), 1)
        /\ (IsSnapshot /\ SnapsGlobal(lastOp'.rollupKind)) =>
             LET global == m_telemetryStats
                 record == records'[Len(records')]
                 retried == global.packageStats.retryPkgsPerHttpReturnCode
                 retries == global.retriesCountDistribution
             IN /\ \A code \in DOMAIN retried :
                      retried[code] > 0 =>
                          Holds(record, CodeKey("rqs_acked_ret_on_HTTP", code),
                                toString(retried[code]))
                /\ \A n \in DOMAIN retries :
                      DOMAIN retries = {n} =>
                          Holds(record, Key("rqs_fail_on_HTTP_retries_count_distribution"),
                                toString(n) \o << ":" >> \o toString(retries[n])) ]_vars

\* a Start rollup has returned the record of the global row after two
\* on_package_retry(503, 2)
C15_Witness ==
    /\ AfterRollup(ACT_STATS_ROLLUP_KIND_START)
    /\ records # << >>
    /\ Holds(records[Len(records)], CodeKey("rqs_acked_ret_on_HTTP", 503), << "2" >>)
    /\ Holds(records[Len(records)], Key("rqs_fail_on_HTTP_retries_count_distribution"),
             << "2", ":", "2" >>)
    /\ Holds(records[Len(records)], Key("rqs_acked_ret"), << "2" >>)

\* C16: on_post_data(bytes, metastats_only) changes the package stats of the
\* global row and nothing else: bytesConsumed grows by bytes, posted by 1,
\* metastatsOnlyPosted by 1 exactly when metastats_only; the tenant map and
\* every tenant row stay as they are.
C16_PostDataGlobalOnly ==
    [][ IsCall("updateOnPostData") =>
          LET old == m_telemetryStats.packageStats
              new == m_telemetryStats'.packageStats
          IN /\ m_telemetryTenantStats' = m_telemetryTenantStats
             /\ [m_telemetryStats' EXCEPT !.packageStats = old] = m_telemetryStats
             /\ Grew(new.totalBandwidthConsumedInBytes, old.totalBandwidthConsumedInBytes,
                     lastOp'.postDataLength)
             /\ Grew(new.totalPkgsToBeAcked, old.totalPkgsToBeAcked, 1)
             /\ Grew(new.totalMetastatsOnlyPkgsToBeAcked, old.totalMetastatsOnlyPkgsToBeAcked,
                     IF lastOp'.metastatsOnly THEN 1 ELSE 0)
             /\ [new EXCEPT
                    !.totalBandwidthConsumedInBytes = old.totalBandwidthConsumedInBytes,
                    !.totalPkgsToBeAcked = old.totalPkgsToBeAcked,
                    !.totalMetastatsOnlyPkgsToBeAcked = old.totalMetastatsOnlyPkgsToBeAcked]
                  = old ]_vars

\* a metastats-only package was posted on an engine that holds the row of a
\* tenant
C16_Witness ==
    /\ lastOp.op = "updateOnPostData"
    /\ lastOp.metastatsOnly
    /\ DOMAIN m_telemetryTenantStats # {}
    /\ m_telemetryStats.packageStats.totalPkgsToBeAcked = 1
    /\ m_telemetryStats.packageStats.totalMetastatsOnlyPkgsToBeAcked = 1
    /\ m_telemetryStats.packageStats.totalBandwidthConsumedInBytes = 2048

\* the number of records of the mapping that belong to the tenant
RecordsOf(ids, token) == Cardinality({ id \in DOMAIN ids : ids[id] = token })

\* C17: on_package_sent_succeeded creates no tenant row: the key set of the
\* tenant map stays, a token of the mapping without a row is skipped, and every
\* tenant that has a row gets its sent counter, and for a class >= 0 its
\* per-class sent counter, raised by the number of records mapped to it.
C17_SentCreatesNoRow ==
    [][ IsCall("updateOnPackageSentSucceeded") =>
          LET ids == lastOp'.recordIdsAndTenantids
              eventLatency == lastOp'.eventLatency
          IN /\ DOMAIN m_telemetryTenantStats' = DOMAIN m_telemetryTenantStats
             /\ \A t \in DOMAIN m_telemetryTenantStats :
                   LET old == m_telemetryTenantStats[t]
                       new == m_telemetryTenantStats'[t]
                   IN /\ Grew(new.recordStats.sentCount, old.recordStats.sentCount,
                              RecordsOf(ids, t))
                      /\ eventLatency >= 0 =>
                           Grew(RecordStatsAt(new.recordStatsPerLatency, eventLatency).sentCount,
                                RecordStatsAt(old.recordStatsPerLatency, eventLatency).sentCount,
                                RecordsOf(ids, t)) ]_vars

\* a package of one record of a tenant without a row was acknowledged on an
\* engine that holds the row of another tenant
C17_Witness ==
    /\ lastOp.op = "updateOnPackageSentSucceeded"
    /\ DOMAIN m_telemetryTenantStats # {}
    /\ \E id \in DOMAIN lastOp.recordIdsAndTenantids :
          lastOp.recordIdsAndTenantids[id] \notin DOMAIN m_telemetryTenantStats
    /\ m_telemetryStats.recordStats.sentCount = 1

\* the per-class maps of a row
PerClassMaps(ts) == << ts.recordStatsPerLatency, ts.logToSuccessfulSendLatencyPerLatency >>

\* C18: for a latency class below 0, on_event_incoming and
\* on_package_sent_succeeded create and modify no entry of the per-class maps
\* (recordStatsPerLatency, logToSuccessfulSendLatencyPerLatency) of the global
\* row and of the tenant rows.
C18_NoClassNoPerClassUpdate ==
    [][ ( \/ IsCall("updateOnEventIncoming") /\ lastOp'.latency < 0
          \/ IsCall("updateOnPackageSentSucceeded") /\ lastOp'.eventLatency < 0 )
        => /\ PerClassMaps(m_telemetryStats') = PerClassMaps(m_telemetryStats)
           /\ \A t \in DOMAIN m_telemetryTenantStats' :
                 PerClassMaps(m_telemetryTenantStats'[t])
                   = PerClassMaps(RowOf(m_telemetryTenantStats, t)) ]_vars

\* the rejected counts of a row over the five reasons of the invalid family
InvalidFamilySum(ts) ==
    LET m == ts.recordStats.rejectedCountReasonDistribution
    IN MapGet(m, REJECTED_REASON_INVALID_CLIENT_MESSAGE_TYPE)
       + MapGet(m, REJECTED_REASON_REQUIRED_ARGUMENT_MISSING)
       + MapGet(m, REJECTED_REASON_EVENT_NAME_MISSING)
       + MapGet(m, REJECTED_REASON_VALIDATION_FAILED)
       + MapGet(m, REJECTED_REASON_OLD_RECORD_VERSION)

\* C19: in the record of a row, r_inv is the sum of the row's rejected counts
\* over the five reasons of the invalid family.
C19_InvalidFamilySummed ==
    [][ IsSnapshot =>
          LET order == TokenOrder(m_telemetryTenantStats)
          IN \A i \in 1..Len(order) :
                LET ts == m_telemetryTenantStats[order[i]]
                IN InvalidFamilySum(ts) > 0 =>
                     Reports(records'[i], "r_inv", InvalidFamilySum(ts)) ]_vars

\* the keys, in increasing order, are strictly increasing
StrictlyIncreasingKeys(m) ==
    LET order == SortedKeys(DOMAIN m)
    IN \A i \in 1..(Len(order) - 1) : order[i] < order[i + 1]

\* C20: after initDistributionKeys(firstValue, increment, totalSpot, factor),
\* whatever the arguments, key 0 exists with count 0, every count is 0, the
\* keys are strictly increasing and there are totalSpot keys.
C20_InitShape ==
    lastOp.op = "initDistributionKeys" =>
        /\ 0 \in DOMAIN dist
        /\ dist[0] = 0
        /\ AllZero(dist)
        /\ StrictlyIncreasingKeys(dist)
        /\ Cardinality(DOMAIN dist) = lastOp.totalSpot


-----------------------------------------------------------------------------
(* Observations into a distribution                                          *)

\* C21: updateMap on a non-empty distribution adds exactly 1 to the count of
\* the largest key <= value and changes no other count and no key, so the sum
\* of the counts grows by one per observation; on an empty distribution it
\* changes nothing.
C21_ObserveCountsOnce ==
    [][IsCall("updateMap") =>
        IF DOMAIN dist = {} THEN dist' = dist
        ELSE /\ DOMAIN dist' = DOMAIN dist
             /\ \E hit \in DOMAIN dist :
                    /\ hit <= lastOp'.value
                    /\ \A k \in DOMAIN dist : k <= lastOp'.value => k <= hit
                    /\ dist'[hit] = dist[hit] + 1
                    /\ \A k \in DOMAIN dist \ {hit} : dist'[k] = dist[k]
             /\ MapSum(dist') = MapSum(dist) + 1]_vars

\* the value 150 was observed into a distribution with the keys 0, 100, 200
\* that already held one observation in bucket 0
C21_Witness ==
    /\ lastOp.op = "updateMap"
    /\ lastOp.value = 150
    /\ DOMAIN dist = {0, 100, 200}
    /\ dist[100] = 1
    /\ dist[0] = 1

\* the histograms of a tenant row that the ongoing reset passes to clearMapValues
ResetHistograms(ts) ==
    << ts.rttStats.latencyDistribution,
       ts.recordStats.sizeInKBytesDistribution,
       ts.offlineStorageStats.saveSizeInKBytesDistribution,
       ts.offlineStorageStats.overwrittenSizeInKBytesDistribution >>

C23_ObservationsCommute ==
    [][IsCall("updateMap") =>
        \A a \in ObservedValues :
            updateMap(dist', a) = updateMap(updateMap(dist, a), lastOp'.value)]_vars

\* 1 was observed after 150 into the keys 0, 100, 200
C23_Witness ==
    /\ lastOp.op = "updateMap"
    /\ lastOp.value = 1
    /\ dist = (0 :> 1) @@ (100 :> 1) @@ (200 :> 0)

-----------------------------------------------------------------------------
(* Mutators only add                                                         *)

\* no value of the map old is lost or lowered in the map new
MapNotBelow(new, old) ==
    \A k \in DOMAIN old : k \in DOMAIN new /\ new[k] >= old[k]

\* no counter of the RecordStats old is lowered in new
RecordStatsNotBelow(new, old) ==
    /\ new.bannedCount >= old.bannedCount
    /\ new.receivedCount >= old.receivedCount
    /\ new.receivedMetastatsCount >= old.receivedMetastatsCount
    /\ new.sentCount >= old.sentCount
    /\ new.sentCountFromCurrentSession >= old.sentCountFromCurrentSession
    /\ new.sentCountFromPreviousSession >= old.sentCountFromPreviousSession
    /\ new.droppedCount >= old.droppedCount
    /\ new.overflownCount >= old.overflownCount
    /\ new.rejectedCount >= old.rejectedCount
    /\ new.totalRecordsSizeInBytes >= old.totalRecordsSizeInBytes
    /\ MapNotBelow(new.droppedCountReasonDistribution, old.droppedCountReasonDistribution)
    /\ MapNotBelow(new.rejectedCountReasonDistribution, old.rejectedCountReasonDistribution)
    /\ MapNotBelow(new.droppedCountPerHttpReturnCode, old.droppedCountPerHttpReturnCode)
    /\ MapNotBelow(new.sizeInKBytesDistribution, old.sizeInKBytesDistribution)

\* no counter of the row old is lowered in new
RowNotBelow(new, old) ==
    /\ RecordStatsNotBelow(new.recordStats, old.recordStats)
    /\ \A l \in DOMAIN old.recordStatsPerLatency :
          /\ l \in DOMAIN new.recordStatsPerLatency
          /\ RecordStatsNotBelow(new.recordStatsPerLatency[l], old.recordStatsPerLatency[l])
    /\ new.packageStats.totalPkgsToBeAcked >= old.packageStats.totalPkgsToBeAcked
    /\ new.packageStats.totalMetastatsOnlyPkgsToBeAcked
           >= old.packageStats.totalMetastatsOnlyPkgsToBeAcked
    /\ new.packageStats.totalPkgsAcked >= old.packageStats.totalPkgsAcked
    /\ new.packageStats.totalMetastatsOnlyPkgsAcked
           >= old.packageStats.totalMetastatsOnlyPkgsAcked
    /\ new.packageStats.successPkgsAcked >= old.packageStats.successPkgsAcked
    /\ new.packageStats.retryPkgsAcked >= old.packageStats.retryPkgsAcked
    /\ new.packageStats.dropPkgsAcked >= old.packageStats.dropPkgsAcked
    /\ new.packageStats.totalBandwidthConsumedInBytes
           >= old.packageStats.totalBandwidthConsumedInBytes
    /\ MapNotBelow(new.packageStats.dropPkgsPerHttpReturnCode,
                   old.packageStats.dropPkgsPerHttpReturnCode)
    /\ MapNotBelow(new.packageStats.retryPkgsPerHttpReturnCode,
                   old.packageStats.retryPkgsPerHttpReturnCode)
    /\ MapNotBelow(new.retriesCountDistribution, old.retriesCountDistribution)

\* the step is a call of a mutator
IsMutator == lastOp'.op \notin { "generateStatsEvent", "hasStatsDataAvailable" }

\* C24: a mutator call only adds: it lowers or drops no counter and no
\* per-reason or per-HTTP-code count of the global row or of a tenant row, and
\* it removes no tenant row.
C24_MutatorsOnlyAdd ==
    [][IsMutator =>
        /\ RowNotBelow(m_telemetryStats', m_telemetryStats)
        /\ \A t \in DOMAIN m_telemetryTenantStats :
              /\ t \in DOMAIN m_telemetryTenantStats'
              /\ RowNotBelow(m_telemetryTenantStats'[t], m_telemetryTenantStats[t])]_vars

\* a second updateOnRecordsOverFlown found the counts of the first one and
\* added its own: 1 + 2 for the tenant, 4 + 2 for the global row
C24_Witness ==
    /\ lastOp.op = "updateOnRecordsOverFlown"
    /\ <<"b">> \in DOMAIN m_telemetryTenantStats
    /\ m_telemetryTenantStats[<<"b">>].recordStats.overflownCount = 3
    /\ m_telemetryStats.recordStats.overflownCount = 6

-----------------------------------------------------------------------------
(* DataViewerCollection                                                      *)

\* the names of the viewers of a collection
NamesOf(collection) == { collection[i].name : i \in DOMAIN collection }

\* C25: the names of the collection are unique; RegisterViewer of the null
\* viewer or of a viewer whose name is in the collection throws
\* invalid_argument and leaves the collection unchanged; any other
\* RegisterViewer throws nothing and puts the name in the collection, which
\* then holds one viewer more, so as many viewers as distinct names.
C25_RegisterKeepsNamesUnique ==
    [][IsCall("RegisterViewer") =>
        LET v == lastOp'.dataViewer
            refused == v = NullViewer \/ v.name \in NamesOf(m_dataViewerCollection)
        IN /\ refused => /\ lastOp'.thrown = "invalid_argument"
                         /\ m_dataViewerCollection' = m_dataViewerCollection
           /\ ~refused => /\ lastOp'.thrown = "nothing"
                          /\ IsViewerInCollection(m_dataViewerCollection', v.name)
                          /\ Len(m_dataViewerCollection') = Len(m_dataViewerCollection) + 1
           /\ Cardinality(NamesOf(m_dataViewerCollection')) = Len(m_dataViewerCollection')]_vars

\* a second viewer with a registered name was refused while two viewers with
\* distinct names are in the collection
C25_Witness ==
    /\ lastOp.op = "RegisterViewer"
    /\ lastOp.thrown = "invalid_argument"
    /\ lastOp.dataViewer = [id |-> 2, name |-> "sharedName1"]
    /\ Len(m_dataViewerCollection) = 2
    /\ m_dataViewerCollection[1] = [id |-> 1, name |-> "sharedName1"]

\* C26: UnregisterViewer of a registered name throws nothing and removes the
\* viewer with that name, keeping the others; for the null name or a name
\* that is not registered it throws invalid_argument and leaves the
\* collection unchanged; UnregisterAllViewers throws nothing and leaves the
\* collection empty; IsViewerEnabled(name) returns true exactly when the name
\* is in the collection and IsViewerEnabled() exactly when the collection
\* holds a viewer.
C26_UnregisterAndEnabled ==
    [][/\ IsCall("UnregisterViewer") =>
            LET n == lastOp'.viewerName
            IN IF n # nullptr /\ n \in NamesOf(m_dataViewerCollection)
               THEN /\ lastOp'.thrown = "nothing"
                    /\ NamesOf(m_dataViewerCollection')
                          = NamesOf(m_dataViewerCollection) \ {n}
                    /\ Len(m_dataViewerCollection') = Len(m_dataViewerCollection) - 1
               ELSE /\ lastOp'.thrown = "invalid_argument"
                    /\ m_dataViewerCollection' = m_dataViewerCollection
       /\ IsCall("UnregisterAllViewers") =>
            lastOp'.thrown = "nothing" /\ m_dataViewerCollection' = << >>
       /\ (IsCall("IsViewerEnabled") /\ lastOp'.viewerName # nullptr) =>
            /\ lastOp'.thrown = "nothing"
            /\ lastOp'.result = (lastOp'.viewerName \in NamesOf(m_dataViewerCollection))
            /\ m_dataViewerCollection' = m_dataViewerCollection
       /\ IsCall("IsViewerEnabled()") =>
            /\ lastOp'.result = (Len(m_dataViewerCollection) > 0)
            /\ m_dataViewerCollection' = m_dataViewerCollection]_vars

\* the second of three registered viewers was unregistered
C26_Witness ==
    /\ lastOp.op = "UnregisterViewer"
    /\ lastOp.thrown = "nothing"
    /\ lastOp.viewerName = "sharedName2"
    /\ Len(m_dataViewerCollection) = 2
    /\ NamesOf(m_dataViewerCollection) = { "sharedName1", "sharedName3" }

-----------------------------------------------------------------------------
(* Histograms of the rows                                                    *)

\* the key sets the configuration gives the histograms
RttKeys ==
    DOMAIN initDistributionKeys(rtt_first_duration_in_millisecs, rtt_next_factor,
                                rtt_total_spots, TRUE)
RecordSizeKeys ==
    DOMAIN initDistributionKeys(record_size_first_in_kb, record_size_next_factor,
                                record_size_total_spots, TRUE)
StorageSizeKeys ==
    DOMAIN initDistributionKeys(storage_size_first_in_kb, storage_size_next_factor,
                                storage_size_total_spots, TRUE)

\* C27: after generate_stats_event(Start) the rtt histogram and the
\* record-size histogram of every tenant row, and with storage enabled both
\* storage-size histograms, have bucket 0 and the keys computed from the
\* configuration, whenever the row was created and whatever rollup came before.
C27_StartInitialisesKeys ==
    AfterRollup(ACT_STATS_ROLLUP_KIND_START) =>
        \A t \in DOMAIN m_telemetryTenantStats :
            LET ts == m_telemetryTenantStats[t]
            IN /\ 0 \in DOMAIN ts.rttStats.latencyDistribution
               /\ DOMAIN ts.rttStats.latencyDistribution = RttKeys
               /\ DOMAIN ts.recordStats.sizeInKBytesDistribution = RecordSizeKeys
               /\ ts.offlineStorageEnabled =>
                     /\ DOMAIN ts.offlineStorageStats.saveSizeInKBytesDistribution
                           = StorageSizeKeys
                     /\ DOMAIN ts.offlineStorageStats.overwrittenSizeInKBytesDistribution
                           = StorageSizeKeys

\* C28: every updateOnEventIncoming that is not metastats is counted in the
\* size histograms: the counts of the tenant row's sizeInKBytesDistribution
\* and of the global row's each sum to 1 more than before, in any state, a
\* row the call itself creates included.
C28_IncomingInSizeHistograms ==
    [][(IsCall("updateOnEventIncoming") /\ ~lastOp'.metastats) =>
        LET t == lastOp'.tenanttoken
            old == RowOf(m_telemetryTenantStats, t).recordStats.sizeInKBytesDistribution
            new == m_telemetryTenantStats'[t].recordStats.sizeInKBytesDistribution
        IN /\ MapSum(new) = MapSum(old) + 1
           /\ MapSum(m_telemetryStats'.recordStats.sizeInKBytesDistribution)
                 = MapSum(m_telemetryStats.recordStats.sizeInKBytesDistribution) + 1]_vars

-----------------------------------------------------------------------------
(* A rollup beside a mutator                                                 *)

\* the received count the tenant row of the token holds, 0 without a row
ReceivedNow(t) ==
    IF t \in DOMAIN m_telemetryTenantStats
    THEN m_telemetryTenantStats[t].recordStats.receivedCount
    ELSE 0

\* C29: a rollup is atomic for a mutator that runs beside it: once the rollup
\* has returned, every record handed to updateOnEventIncoming for a tenant is
\* either counted in a record some rollup produced or still counted in the
\* tenant's row; none is lost between the snapshot and the reset.
C29_NoIncrementLost ==
    rollup.at = "idle" =>
        \A t \in Tokens : reported[t] + ReceivedNow(t) = issued[t]

-----------------------------------------------------------------------------
(* Per-priority keys of a record                                             *)

\* the per-priority counter keys with the class and the counter they name
PriorityKeys ==
    { [key |-> p.prefix \o k.suffix, latency |-> p.latency, field |-> k.field] :
        p \in { [prefix |-> "ln_", latency |-> EventLatency_Normal],
                [prefix |-> "ld_", latency |-> EventLatency_CostDeferred],
                [prefix |-> "lr_", latency |-> EventLatency_RealTime],
                [prefix |-> "lm_", latency |-> EventLatency_Max] },
        k \in { [suffix |-> "r_ban", field |-> "bannedCount"],
                [suffix |-> "rcv", field |-> "receivedCount"],
                [suffix |-> "snt", field |-> "sentCount"],
                [suffix |-> "drp", field |-> "droppedCount"],
                [suffix |-> "d_disk_full", field |-> "overflownCount"],
                [suffix |-> "rej", field |-> "rejectedCount"] } }

\* the row the i-th record of a snapshot is taken from: the tenant rows in the
\* order of the map, then the global row
SnappedRow(i) ==
    LET order == TokenOrder(m_telemetryTenantStats)
    IN IF i <= Len(order) THEN m_telemetryTenantStats[order[i]] ELSE m_telemetryStats

\* C30: in every record a rollup produces, a per-priority counter key that is
\* present carries the counter of its own class and kind; so lm_snt is the
\* sent count of the Max class and ld_d_disk_full the overflown count of the
\* CostDeferred class.
C30_PriorityKeysOwnCounter ==
    [][IsSnapshot =>
        \A i \in DOMAIN records' : \A pk \in PriorityKeys :
            Key(pk.key) \in DOMAIN records'[i].ext =>
                records'[i].ext[Key(pk.key)] =
                    toString(RecordStatsAt(SnappedRow(i).recordStatsPerLatency,
                                           pk.latency)[pk.field])]_vars

\* a record reports one sent record of the Max class
C30_Witness ==
    /\ lastOp.op = "generateStatsEvent"
    /\ \E i \in DOMAIN records :
          /\ Reports(records[i], "lm_snt", 1)
          /\ Reports(records[i], "snt", 1)

-----------------------------------------------------------------------------
(* Zero counters are left out of a record                                    *)

\* the scalar counter keys of a record with the counter of the row each one
\* names: the row's record and package counters, the per-HTTP-code counts and
\* the per-priority counters
ScalarCounters(ts) ==
    { [key |-> Key("r_ban"), value |-> ts.recordStats.bannedCount],
      [key |-> Key("rcv"), value |-> ts.recordStats.receivedCount],
      [key |-> Key("snt"), value |-> ts.recordStats.sentCount],
      [key |-> Key("rej"), value |-> ts.recordStats.rejectedCount],
      [key |-> Key("drp"), value |-> ts.recordStats.droppedCount],
      [key |-> Key("d_disk_full"), value |-> ts.recordStats.overflownCount],
      [key |-> Key("rqs_not_to_be_acked"), value |-> ts.packageStats.totalPkgsNotToBeAcked],
      [key |-> Key("rqs_to_be_acked"), value |-> ts.packageStats.totalPkgsToBeAcked],
      [key |-> Key("rqs_acked"), value |-> ts.packageStats.totalPkgsAcked],
      [key |-> Key("rqs_acked_succ"), value |-> ts.packageStats.successPkgsAcked],
      [key |-> Key("rqs_acked_ret"), value |-> ts.packageStats.retryPkgsAcked],
      [key |-> Key("rqs_acked_drp"), value |-> ts.packageStats.dropPkgsAcked] }
    \cup { [key |-> CodeKey("rqs_acked_drp_on_HTTP", c),
            value |-> MapGet(ts.packageStats.dropPkgsPerHttpReturnCode, c)] : c \in HttpCodes }
    \cup { [key |-> CodeKey("rqs_acked_ret_on_HTTP", c),
            value |-> MapGet(ts.packageStats.retryPkgsPerHttpReturnCode, c)] : c \in HttpCodes }
    \cup { [key |-> CodeKey("rcds_drp_on_HTTP", c),
            value |-> MapGet(ts.recordStats.droppedCountPerHttpReturnCode, c)] : c \in HttpCodes }
    \cup { [key |-> Key(pk.key),
            value |-> RecordStatsAt(ts.recordStatsPerLatency, pk.latency)[pk.field]] :
            pk \in PriorityKeys }

\* C31: in every record a rollup produces, a scalar counter key is present
\* exactly when the counter of the snapshotted row is not 0, and then carries
\* the decimal text of that counter.
C31_ZeroCountersOmitted ==
    [][IsSnapshot =>
        \A i \in DOMAIN records' : \A c \in ScalarCounters(SnappedRow(i)) :
            /\ (c.key \in DOMAIN records'[i].ext) = (c.value # 0)
            /\ c.value # 0 => records'[i].ext[c.key] = toString(c.value)]_vars

\* the global record of a rollup after one failed package: the package and
\* its HTTP code are reported, the record counters are left out
C31_Witness ==
    /\ lastOp.op = "generateStatsEvent"
    /\ \E i \in DOMAIN records :
          /\ Reports(records[i], "rqs_acked", 1)
          /\ Reports(records[i], "rqs_acked_drp", 1)
          /\ Holds(records[i], CodeKey("rqs_acked_drp_on_HTTP", 503), << "1" >>)
          /\ Key("rcv") \notin DOMAIN records[i].ext
          /\ Key("rqs_acked_ret") \notin DOMAIN records[i].ext

-----------------------------------------------------------------------------
(* Tenant rows                                                               *)

\* C32: every row of the tenant map, whichever mutator created it, has the
\* tenantId of its token: the token up to the first '-', the whole token
\* when it has none.
C32_TenantIdFromToken ==
    \A t \in DOMAIN m_telemetryTenantStats :
        m_telemetryTenantStats[t].tenantId = TenantIdOf(t)

-----------------------------------------------------------------------------
(* Smallest and largest observed values                                      *)

\* a pair nothing was observed into
NoObservation == [max |-> 0, min |-> UIntMax]

SizePair(ts) ==
    [max |-> ts.recordStats.maxOfRecordSizeInBytes,
     min |-> ts.recordStats.minOfRecordSizeInBytes]
LatencyPair(ls) == [max |-> ls.maxOfLatencyInMilliSecs, min |-> ls.minOfLatencyInMilliSecs]
RttPair(ts) == LatencyPair(ts.rttStats)
\* the pair of a class without an entry is the one operator[] would create
ClassPair(ts, l) == LatencyPair(LatencyStatsAt(ts.logToSuccessfulSendLatencyPerLatency, l))

EventClasses ==
    Latencies \cup { EventLatency_Normal, EventLatency_CostDeferred,
                     EventLatency_RealTime, EventLatency_Max }

\* the three kinds of pair of one row
PairsOf(ts) ==
    [size |-> SizePair(ts), rtt |-> RttPair(ts),
     class |-> [l \in EventClasses |-> ClassPair(ts, l)]]

\* the values of a sequence
ValuesOf(seq) == { seq[i] : i \in DOMAIN seq }

Largest(values) == CHOOSE x \in values : \A y \in values : y <= x
Smallest(values) == CHOOSE x \in values : \A y \in values : x <= y

\* the pair after the values were observed into it
Observed(pair, values) ==
    [max |-> Largest(values \cup {pair.max}), min |-> Smallest(values \cup {pair.min})]

\* what a call observes into a row: record sizes, round trip times, and send
\* latencies of the classes named
NothingObserved == [sizes |-> {}, rtts |-> {}, classes |-> {}, latencies |-> {}]

ObservedIntoGlobal(call) ==
    CASE call.op = "updateOnEventIncoming" -> [NothingObserved EXCEPT !.sizes = {call.size}]
      [] call.op = "updateOnPackageSentSucceeded" ->
            [sizes |-> {}, rtts |-> {call.durationMs}, classes |-> {call.eventLatency},
             latencies |-> ValuesOf(call.latencyToSendMs)]
      [] OTHER -> NothingObserved

ObservedIntoTenant(call, t, tenants) ==
    CASE call.op = "updateOnEventIncoming" /\ ~call.metastats /\ call.tenanttoken = t ->
            [NothingObserved EXCEPT !.sizes = {call.size}]
      [] /\ call.op = "updateOnPackageSentSucceeded"
         /\ t \in DOMAIN tenants
         /\ \E id \in DOMAIN call.recordIdsAndTenantids : call.recordIdsAndTenantids[id] = t ->
            [sizes |-> {}, rtts |-> {}, classes |-> {call.eventLatency},
             latencies |-> ValuesOf(call.latencyToSendMs)]
      [] OTHER -> NothingObserved

\* the pairs of a row after the observations
PairsAfter(pairs, seen) ==
    [size |-> Observed(pairs.size, seen.sizes),
     rtt |-> Observed(pairs.rtt, seen.rtts),
     class |-> [l \in EventClasses |->
                  IF l \in seen.classes THEN Observed(pairs.class[l], seen.latencies)
                  ELSE pairs.class[l]]]

\* a pair holds no observation, or its smallest value is not above its largest
PairInOrder(pair) == pair = NoObservation \/ pair.min <= pair.max

PairsInOrder(ts) ==
    /\ PairInOrder(SizePair(ts))
    /\ PairInOrder(RttPair(ts))
    /\ \A l \in EventClasses : PairInOrder(ClassPair(ts, l))

\* C33: every min/max pair (record size of a row, round trip time, send
\* latency of a class) starts at max 0 and min the largest unsigned value, a
\* reset puts it back there, and every observation in between replaces max
\* by the larger and min by the smaller of the pair and the observed value:
\* after at least one observation since the last reset min is the smallest
\* and max the largest observed value, so min <= max.
C33_MinMaxOfObserved ==
    /\ PairsOf(m_telemetryStats) = PairsOf(NewTelemetryStats)
    /\ ClassPair(NewTelemetryStats, EventLatency_Normal) = NoObservation
    /\ SizePair(NewTelemetryStats) = NoObservation
    /\ RttPair(NewTelemetryStats) = NoObservation
    /\ [][/\ PairsInOrder(m_telemetryStats')
          /\ \A t \in DOMAIN m_telemetryTenantStats' : PairsInOrder(m_telemetryTenantStats'[t])
          /\ IF IsCall("generateStatsEvent")
             THEN /\ SizePair(m_telemetryStats') = SizePair(m_telemetryStats)
                  /\ RttPair(m_telemetryStats') = RttPair(m_telemetryStats)
                  /\ \A l \in EventClasses :
                        ClassPair(m_telemetryStats', l) =
                            IF lastOp'.rollupKind = ACT_STATS_ROLLUP_KIND_STOP
                            THEN NoObservation
                            ELSE ClassPair(m_telemetryStats, l)
                  /\ \A t \in DOMAIN m_telemetryTenantStats' :
                        PairsOf(m_telemetryTenantStats'[t]) =
                            IF IsSnapshot THEN PairsOf(NewTelemetryStats)
                            ELSE PairsOf(m_telemetryTenantStats[t])
             ELSE /\ PairsOf(m_telemetryStats') =
                         PairsAfter(PairsOf(m_telemetryStats), ObservedIntoGlobal(lastOp'))
                  /\ \A t \in DOMAIN m_telemetryTenantStats' :
                        PairsOf(m_telemetryTenantStats'[t]) =
                            PairsAfter(PairsOf(RowOf(m_telemetryTenantStats, t)),
                                       ObservedIntoTenant(lastOp', t, m_telemetryTenantStats))]_vars

\* a tenant's package of two records sent 25 and 5 milliseconds after they
\* were logged, acknowledged after the tenant's record of 500 bytes came in
C33_Witness ==
    /\ lastOp.op = "updateOnPackageSentSucceeded"
    /\ TenantTokens[1] \in DOMAIN m_telemetryTenantStats
    /\ ClassPair(m_telemetryTenantStats[TenantTokens[1]], EventLatency_Normal)
           = [max |-> 25, min |-> 5]
    /\ SizePair(m_telemetryTenantStats[TenantTokens[1]]) = [max |-> 500, min |-> 500]
    /\ ClassPair(m_telemetryStats, EventLatency_Normal) = [max |-> 25, min |-> 5]
    /\ RttPair(m_telemetryStats) = [max |-> 150, min |-> 150]

-----------------------------------------------------------------------------
(* The text of a distribution                                                *)

\* the entries of a text: its parts between the commas, from position i on
\* with the entry read so far
RECURSIVE EntriesFrom(_, _, _)
EntriesFrom(text, i, entry) ==
    IF i > Len(text) THEN << entry >>
    ELSE IF text[i] = "," THEN << entry >> \o EntriesFrom(text, i + 1, << >>)
    ELSE EntriesFrom(text, i + 1, Append(entry, text[i]))

Entries(text) == EntriesFrom(text, 1, << >>)

\* the entry of the i-th of the keys k of the distribution d
RangeEntry(d, k, i) ==
    IF i < Len(k)
    THEN toString(k[i]) \o << "-" >> \o toString(k[i + 1]) \o << ":" >> \o toString(d[k[i]])
    ELSE << ">" >> \o toString(k[i]) \o << ":" >> \o toString(d[k[i]])

PointEntry(d, k, i) == toString(k[i]) \o << ":" >> \o toString(d[k[i]])

-----------------------------------------------------------------------------
(* After a rollup                                                            *)

\* the list generate_stats_event(Ongoing) would return in this state
NextOngoing ==
    IF ShouldSnapshot(ACT_STATS_ROLLUP_KIND_ONGOING, m_telemetryTenantStats, m_telemetryStats)
    THEN snapStatsToRecord(ACT_STATS_ROLLUP_KIND_ONGOING, m_telemetryTenantStats,
                           m_telemetryStats, m_sessionId, now + 1)
    ELSE << >>

\* C35: right after a generate_stats_event that returned records (Start, Stop
\* or an Ongoing that was not gated), before any mutator runs,
\* has_stats_data_available() is false and generate_stats_event(Ongoing)
\* returns the empty list, whatever traffic came before the rollup.
C35_QuietAfterRollup ==
    (lastOp.op = "generateStatsEvent" /\ records # << >>) =>
        /\ ~hasStatsDataAvailable(m_telemetryTenantStats, m_telemetryStats)
        /\ NextOngoing = << >>

-----------------------------------------------------------------------------
(* The counters of the global row over the rollups                           *)

\* 1 for a step that is the call op, 0 for any other step
CallsOf(op) == IF IsCall(op) THEN 1 ELSE 0

\* the record of the global row in the list of a Start or Stop rollup
GlobalRecord(list) == list[Len(list)]

\* C36: no rollup resets the scalar counters of the global row: the global
\* record of every Start or Stop rollup holds in rcv the number of
\* on_event_incoming calls and in rqs_to_be_acked the number of on_post_data
\* calls since construction. Both counters start at 0, every such call adds 1,
\* no other step changes them, and the record holds their values (a counter of
\* 0 has no key).
C36_GlobalCountersNeverReset ==
    /\ m_telemetryStats.recordStats.receivedCount = 0
    /\ m_telemetryStats.packageStats.totalPkgsToBeAcked = 0
    /\ [][/\ m_telemetryStats'.recordStats.receivedCount =
                m_telemetryStats.recordStats.receivedCount + CallsOf("updateOnEventIncoming")
          /\ m_telemetryStats'.packageStats.totalPkgsToBeAcked =
                m_telemetryStats.packageStats.totalPkgsToBeAcked + CallsOf("updateOnPostData")
          /\ (IsCall("generateStatsEvent") /\ SnapsGlobal(lastOp'.rollupKind)) =>
                /\ Len(records') = Cardinality(DOMAIN m_telemetryTenantStats) + 1
                /\ ReportedCount(GlobalRecord(records'), "rcv") =
                      m_telemetryStats.recordStats.receivedCount
                /\ ReportedCount(GlobalRecord(records'), "rqs_to_be_acked") =
                      m_telemetryStats.packageStats.totalPkgsToBeAcked]_vars

\* the Stop rollup after an event of tenant "b" and a Start rollup: the row
\* went through two resets, its record holds no rcv, the global record holds 1
C36_Witness ==
    /\ AfterRollup(ACT_STATS_ROLLUP_KIND_STOP)
    /\ TenantTokens[2] \in DOMAIN m_telemetryTenantStats
    /\ m_telemetryTenantStats[TenantTokens[2]].statsSequenceNum = 2
    /\ Len(records) = 2
    /\ Key("rcv") \notin DOMAIN records[1].ext
    /\ Reports(GlobalRecord(records), "rcv", 1)
    /\ m_telemetryStats.recordStats.receivedCount = 1

-----------------------------------------------------------------------------
(* The package counters of the global row                                    *)

\* C37: in every reachable state the acknowledged packages of the global row
\* are the successful, the retried and the dropped ones together:
\* acked = ackedSuccess + ackedRetry + ackedDropped.
C37_AckedIsSumOfOutcomes ==
    LET ps == m_telemetryStats.packageStats
    IN ps.totalPkgsAcked = ps.successPkgsAcked + ps.retryPkgsAcked + ps.dropPkgsAcked

\* one package acknowledged and one dropped
C37_Witness ==
    /\ m_telemetryStats.packageStats.totalPkgsAcked = 2
    /\ m_telemetryStats.packageStats.successPkgsAcked = 1
    /\ m_telemetryStats.packageStats.dropPkgsAcked = 1

\* C38: in every reachable state the metastats-only packages are among the
\* packages: metastatsOnlyPosted <= posted and metastatsOnlyAcked <= acked, so
\* each strict comparison of has_stats_data_available is true exactly when the
\* counter holds at least one package more than the metastats-only ones.
C38_MetastatsOnlyWithinTotals ==
    LET ps == m_telemetryStats.packageStats
    IN /\ ps.totalMetastatsOnlyPkgsToBeAcked <= ps.totalPkgsToBeAcked
       /\ ps.totalMetastatsOnlyPkgsAcked <= ps.totalPkgsAcked

\* a metastats-only package posted and acknowledged: no data is available
C38_Witness ==
    /\ m_telemetryStats.packageStats.totalMetastatsOnlyPkgsToBeAcked = 1
    /\ m_telemetryStats.packageStats.totalPkgsToBeAcked = 1
    /\ m_telemetryStats.packageStats.totalMetastatsOnlyPkgsAcked = 1
    /\ m_telemetryStats.packageStats.totalPkgsAcked = 1
    /\ ~hasStatsDataAvailable(m_telemetryTenantStats, m_telemetryStats)

\* C39: in every reachable state, also after a Start, an Ongoing and a Stop
\* rollup, the counts of the retries histogram of the global row add up to
\* ackedSuccess + ackedRetry, the retried packages per HTTP code to ackedRetry
\* and the dropped packages per HTTP code to ackedDropped.
C39_SumsMatchCounters ==
    LET ps == m_telemetryStats.packageStats
    IN /\ MapSum(m_telemetryStats.retriesCountDistribution)
             = ps.successPkgsAcked + ps.retryPkgsAcked
       /\ MapSum(ps.retryPkgsPerHttpReturnCode) = ps.retryPkgsAcked
       /\ MapSum(ps.dropPkgsPerHttpReturnCode) = ps.dropPkgsAcked

-----------------------------------------------------------------------------
(* Tenants apart                                                             *)

\* the tenant tokens a mutator call names
TokensNamed(call) ==
    CASE call.op = "updateOnEventIncoming" ->
            IF call.metastats THEN {} ELSE { call.tenanttoken }
      [] call.op = "updateOnRecordsDropped" -> DOMAIN call.droppedCount
      [] call.op = "updateOnRecordsOverFlown" -> DOMAIN call.overflownCount
      [] call.op = "updateOnRecordsRejected" -> DOMAIN call.rejectedCount
      [] call.op = "updateOnPackageSentSucceeded" ->
            { call.recordIdsAndTenantids[id] : id \in DOMAIN call.recordIdsAndTenantids }
      [] OTHER -> {}

\* C40: a mutator call leaves the row of every tenant it does not name as it
\* was and creates no row for such a tenant: on_event_incoming for A, or a
\* dropped, overflown, rejected or sent-succeeded call whose mapping holds
\* only A, changes nothing of any other tenant B.
C40_TenantIsolation ==
    [][IsMutator =>
        \A B \in Tokens \ TokensNamed(lastOp') :
            /\ (B \in DOMAIN m_telemetryTenantStats') = (B \in DOMAIN m_telemetryTenantStats)
            /\ B \in DOMAIN m_telemetryTenantStats =>
                  m_telemetryTenantStats'[B] = m_telemetryTenantStats[B]]_vars

\* two records of tenant "b" dropped after an event of tenant "a-x" came in:
\* the row of "a-x" holds its event and no dropped record
C40_Witness ==
    /\ lastOp.op = "updateOnRecordsDropped"
    /\ TokensNamed(lastOp) = { TenantTokens[2] }
    /\ DOMAIN m_telemetryTenantStats = Tokens
    /\ m_telemetryTenantStats[TenantTokens[1]].recordStats.receivedCount = 1
    /\ m_telemetryTenantStats[TenantTokens[1]].recordStats.droppedCount = 0
    /\ m_telemetryTenantStats[TenantTokens[2]].recordStats.droppedCount = 2

=============================================================================
